---- MODULE Spec2Model ----
(***************************************************************************)
(* Model of the web link extractor: BatchProcessorService (bounded         *)
(* concurrency driver), LinkExtractorService (extract, extractWithRetry)   *)
(* and PageLoader (browser / context / page life cycle).                   *)
(*                                                                         *)
(* Execution model: one JavaScript event loop.  An action is either a      *)
(* stretch of synchronous code up to its next await, or the completion of  *)
(* an awaited I/O operation together with the synchronous code that        *)
(* follows it.  Promise continuations (microtasks) run before the next    *)
(* I/O completion is delivered; the guards IoReady / MicrotaskReady encode *)
(* that priority.                                                          *)
(*                                                                         *)
(* Strings are sequences of tokens (a token is a character or an           *)
(* indivisible chunk such as "https://").                                  *)
(***************************************************************************)
EXTENDS Integers, Sequences, FiniteSets, TLC

(***************************************************************************)
(* Bounds                                                                  *)
(***************************************************************************)
MaxUrls == 2
MaxFileLines == 2

(***************************************************************************)
(* Program constants                                                       *)
(***************************************************************************)
DefaultConcurrency == 3

VARIABLES
    input,        \* processBatch argument urlsOrFile
    options,      \* BatchOptions / ExtractionOptions
    bpc,          \* position of processBatch / processWithConcurrency
    urls,         \* processBatch: const urls
    concurrency,  \* processBatch: const concurrency
    queue,        \* processWithConcurrency: queue
    inProgress,   \* processWithConcurrency: inProgress (set of task ids)
    results,      \* processWithConcurrency: results
    batchResult,  \* value processBatch resolved with
    batchError,   \* error processBatch rejected with
    calls,        \* every extract() invocation, in invocation order
    browser,      \* PageLoader.browser (0 = null)
    context,      \* PageLoader.context (0 = null)
    launched,     \* browser sessions chromium.launch has produced
    openBrowsers, \* browser sessions not closed
    openContexts, \* browsing contexts not closed
    openPages,    \* pages not closed
    createdPages, \* pages context.newPage has produced
    target,       \* extractWithRetry argument url
    maxRetries,   \* extractWithRetry argument maxRetries
    rpc,          \* position of extractWithRetry
    retryCount,   \* extractWithRetry: retryCount
    lastError,    \* extractWithRetry: lastError
    sleeps,       \* the backoff delays (ms) extractWithRetry has slept
    retryResult,  \* value extractWithRetry resolved with
    retryError,   \* error extractWithRetry rejected with
    redirectChains, \* ErrorHandler.redirectChains (key -> chain)
    logs,         \* ErrorHandler.logs
    verbose,      \* ErrorHandler.verbose
    hops,         \* the trackRedirect calls since the chains were last cleared
    lastOp,       \* the ErrorHandler operation that ran last
    args,         \* arguments of the call of a pure method under study
    returned      \* what that call returned, None while it has not run

vars == << input, options, bpc, urls, concurrency, queue, inProgress, results,
           batchResult, batchError, calls, browser, context, launched,
           openBrowsers, openContexts, openPages, createdPages, target,
           maxRetries, rpc, retryCount, lastError, sleeps, retryResult,
           retryError, redirectChains, logs, verbose, hops, lastOp, args,
           returned >>

handlerVars == << redirectChains, logs, verbose, hops, lastOp >>

callVars == << args, returned >>

retryVars == << target, maxRetries, rpc, retryCount, lastError, sleeps,
                retryResult, retryError >>

loaderVars == << browser, context, launched, openBrowsers, openContexts,
                 openPages, createdPages >>

batchVars == << input, options, bpc, urls, concurrency, queue, inProgress,
                results, batchResult, batchError >>

(***************************************************************************)
(* Generic helpers                                                         *)
(***************************************************************************)
None == [none |-> TRUE]

Range(s) == { s[i] : i \in 1..Len(s) }

RECURSIVE SeqSum(_)
SeqSum(s) == IF s = << >> THEN 0 ELSE Head(s) + SeqSum(Tail(s))

RECURSIVE Flatten(_)
Flatten(ss) == IF ss = << >> THEN << >> ELSE Head(ss) \o Flatten(Tail(ss))

(***************************************************************************)
(* Strings                                                                 *)
(***************************************************************************)
Whitespace == { " ", "\t" }

RECURSIVE TrimStart(_)
TrimStart(s) ==
    IF s # << >> /\ Head(s) \in Whitespace THEN TrimStart(Tail(s)) ELSE s

RECURSIVE TrimEnd(_)
TrimEnd(s) ==
    IF s # << >> /\ s[Len(s)] \in Whitespace
    THEN TrimEnd(SubSeq(s, 1, Len(s) - 1)) ELSE s

\* String.prototype.trim
Trim(s) == TrimEnd(TrimStart(s))

\* String.prototype.startsWith for a one-token prefix
StartsWith(s, tok) == s # << >> /\ Head(s) = tok

(***************************************************************************)
(* Error values (src/types/index.ts).  One record shape for all classes so *)
(* that errors can be compared; fields a class does not have are 0, "" or *)
(* None.                                                                   *)
(***************************************************************************)
MkError(name, url, retries, statusCode, original, param) ==
    [ name |-> name, url |-> url, retries |-> retries,
      statusCode |-> statusCode, originalError |-> original,
      invalidParameter |-> param ]

NetworkError(url, retries, original) ==
    MkError("NetworkError", url, retries, 0, original, "")

TimeoutError(url) == MkError("TimeoutError", url, 0, 0, None, "")

AuthenticationError(url, status) ==
    MkError("AuthenticationError", url, 0, status, None, "")

ValidationError(param) == MkError("ValidationError", << >>, 0, 0, None, param)

\* an exception that is none of the five classes (thrown by the runtime or
\* by the browser driver)
PlainError(url) == MkError("Error", url, 0, 0, None, "")

(***************************************************************************)
(* URLs.  A URL string is a token sequence; a scheme token ("https://",    *)
(* "mailto:") is the scheme with its delimiter, "/" "?" "#" are            *)
(* delimiters, every other token is an opaque run of characters.           *)
(***************************************************************************)
AuthoritySchemes == { "http://", "https://", "ftp://", "ftps://", "file://" }
OpaqueSchemes == { "mailto:", "tel:", "javascript:", "data:", "foo:" }

\* scheme name of a scheme token
SchemeName(tok) ==
    CASE tok = "http://" -> "http"
      [] tok = "https://" -> "https"
      [] tok = "ftp://" -> "ftp"
      [] tok = "ftps://" -> "ftps"
      [] tok = "file://" -> "file"
      [] tok = "mailto:" -> "mailto"
      [] tok = "tel:" -> "tel"
      [] tok = "javascript:" -> "javascript"
      [] tok = "data:" -> "data"
      [] tok = "foo:" -> "foo"
      [] OTHER -> "unknown"

\* new URL(u) does not throw
UrlParses(u) ==
    /\ u # << >>
    /\ \/ Head(u) \in OpaqueSchemes
       \/ Head(u) \in AuthoritySchemes /\ Len(u) >= 2
                                       /\ u[2] \notin { "/", "?", "#" }

\* new URL(u).hostname
Hostname(u) == IF Head(u) \in AuthoritySchemes THEN u[2] ELSE ""

RECURSIVE UpTo(_, _)
\* longest prefix of s with no token of stop
UpTo(s, stop) ==
    IF s = << >> \/ Head(s) \in stop THEN << >>
    ELSE << Head(s) >> \o UpTo(Tail(s), stop)

\* what follows the scheme (and the host) in u
AfterHost(u) ==
    IF Head(u) \in AuthoritySchemes THEN SubSeq(u, 3, Len(u)) ELSE Tail(u)

\* new URL(u).pathname
Pathname(u) ==
    LET p == UpTo(AfterHost(u), { "?", "#" })
    IN  IF p = << >> /\ Head(u) \in AuthoritySchemes THEN << "/" >> ELSE p

RECURSIVE SplitPath(_, _)
SplitPath(p, cur) ==
    IF p = << >> THEN << cur >>
    ELSE IF Head(p) = "/" THEN << cur >> \o SplitPath(Tail(p), << >>)
         ELSE SplitPath(Tail(p), Append(cur, Head(p)))

RECURSIVE Collapse(_, _)
\* the URL parser's handling of "." and ".." path segments
Collapse(segs, out) ==
    IF segs = << >> THEN out
    ELSE LET seg == Head(segs)
             last == Len(segs) = 1
             popped == IF out = << >> THEN << >>
                       ELSE SubSeq(out, 1, Len(out) - 1)
         IN  IF seg = << ".." >>
             THEN Collapse(Tail(segs),
                           IF last THEN Append(popped, << >>) ELSE popped)
             ELSE IF seg = << "." >>
             THEN Collapse(Tail(segs),
                           IF last THEN Append(out, << >>) ELSE out)
             ELSE Collapse(Tail(segs), Append(out, seg))

RECURSIVE JoinPath(_)
JoinPath(segs) ==
    IF segs = << >> THEN << >>
    ELSE << "/" >> \o Head(segs) \o JoinPath(Tail(segs))

Href_Unresolved(u) == u

\* new URL(u).href for a parseable URL with an authority
Href(u) ==
    LET rest == AfterHost(u)
        path == Pathname(u)
        tail == SubSeq(rest, Len(UpTo(rest, { "?", "#" })) + 1, Len(rest))
    IN  << u[1], u[2] >> \o JoinPath(Collapse(Tail(SplitPath(path, << >>)), << >>))
           \o tail

\* new URL(u).href for u == scheme "//" rest with a scheme that is not
\* special: rest up to the first delimiter is the host, the path is resolved
OpaqueHref(u) ==
    LET rest == SubSeq(u, 3, Len(u))
        host == UpTo(rest, { "/", "?", "#" })
        afterHost == SubSeq(rest, Len(host) + 1, Len(rest))
        path == UpTo(afterHost, { "?", "#" })
        tail == SubSeq(afterHost, Len(path) + 1, Len(afterHost))
    IN  << u[1], u[2] >> \o host
           \o (IF path = << >> THEN << >>
               ELSE JoinPath(Collapse(Tail(SplitPath(path, << >>)), << >>)))
           \o tail

\* basePath with its file name removed (LinkParser.normalizeUrl 108-111)
BaseDirectory(path) ==
    IF path # << >> /\ path[Len(path)] = "/" THEN path
    ELSE LET idx == { i \in 1..Len(path) : path[i] = "/" }
         IN  IF idx = { } THEN << >>
             ELSE SubSeq(path, 1, CHOOSE i \in idx : \A j \in idx : j <= i)

\* LinkParser.normalizeUrl
normalizeUrl(url0, baseUrl) ==
    IF Trim(url0) = << >> THEN << >>
    ELSE LET url == Trim(url0)
         IN  IF Head(url) \in { "mailto:", "tel:", "javascript:", "data:" }
             THEN url
             ELSE IF Head(url) = "//"
             THEN IF UrlParses(baseUrl) /\ Head(baseUrl) \in AuthoritySchemes
                  THEN << Head(baseUrl) >> \o Tail(url)
                  ELSE IF UrlParses(baseUrl)
                       THEN << Head(baseUrl) >> \o url
                       ELSE url
             ELSE IF Head(url) \in { "http://", "https://" } THEN url
             ELSE IF Head(url) = "#" THEN baseUrl \o url
             ELSE IF ~ UrlParses(baseUrl) THEN url
             ELSE IF Head(baseUrl) \notin AuthoritySchemes
             THEN \* base.host is empty: `${protocol}//${host}${path}${url}`
                  IF Head(url) = "/"
                  THEN << Head(baseUrl), "//" >> \o url
                  ELSE OpaqueHref(<< Head(baseUrl), "//" >>
                                     \o BaseDirectory(Pathname(baseUrl)) \o url)
             ELSE IF Head(url) = "/"
             THEN << baseUrl[1], baseUrl[2] >> \o url
             ELSE Href(<< baseUrl[1], baseUrl[2] >>
                          \o BaseDirectory(Pathname(baseUrl)) \o url)

\* LinkParser.identifyProtocol
identifyProtocol(url) ==
    IF Trim(url) = << >> THEN "unknown"
    ELSE IF Head(url) \in { "mailto:", "tel:", "javascript:", "data:",
                            "ftp://", "ftps://" }
    THEN SchemeName(Head(url))
    ELSE IF UrlParses(url) THEN SchemeName(Head(url))
    ELSE IF Head(url) \in AuthoritySchemes \cup OpaqueSchemes
    THEN SchemeName(Head(url))
    ELSE "unknown"

\* LinkFilter.isInternalLink
isInternalLink(url, baseUrl) ==
    IF UrlParses(url) /\ UrlParses(baseUrl)
    THEN Hostname(url) = Hostname(baseUrl)
    ELSE FALSE

(***************************************************************************)
(* LinkFilter.filter                                                       *)
(***************************************************************************)
NoCriteria ==
    [ internalOnly |-> FALSE, externalOnly |-> FALSE, domains |-> << >>,
      excludeDomains |-> << >>, urlPattern |-> "", protocols |-> << >> ]

\* hostname.endsWith('.' + domain) on the host names the model uses
HostEndsWithDot(hostname, domain) ==
    \/ hostname = "www.a.com" /\ domain \in { "a.com", "com" }
    \/ hostname \in { "a.com", "b.com", "c.com", "d.com" } /\ domain = "com"

\* hostname matches one of domains exactly or as a subdomain
HostMatches(hostname, domains) ==
    \E i \in 1..Len(domains) :
        hostname = domains[i] \/ HostEndsWithDot(hostname, domains[i])

\* LinkFilter.matchesPattern; the pattern "(" is not a regular expression,
\* every other pattern is a literal token
matchesPattern(url, pattern) ==
    IF pattern = "(" THEN FALSE ELSE pattern \in Range(url)

\* p.toLowerCase().replace(':', '')
NormalizeProtocol(p) ==
    CASE p = "http:" -> "http"
      [] p = "https:" -> "https"
      [] p = "mailto:" -> "mailto"
      [] OTHER -> p

RECURSIVE FilterSeq(_, _)
\* Array.prototype.filter with the predicate given as a set of kept elements
FilterSeq(s, kept) ==
    IF s = << >> THEN << >>
    ELSE IF Head(s) \in kept THEN << Head(s) >> \o FilterSeq(Tail(s), kept)
         ELSE FilterSeq(Tail(s), kept)

filterByDomain(links, domains) ==
    IF Len(domains) = 0 THEN links
    ELSE FilterSeq(links, { l \in Range(links) :
             UrlParses(l.url) /\ HostMatches(Hostname(l.url), domains) })

\* filter applying the URL pattern to the unfiltered links
filter_PatternOnAll(links, criteria) ==
    LET f1 == IF criteria.internalOnly
              THEN FilterSeq(links, { l \in Range(links) : l.isInternal })
              ELSE links
        f2 == IF criteria.externalOnly
              THEN FilterSeq(f1, { l \in Range(f1) : l.isExternal })
              ELSE f1
        f3 == IF Len(criteria.domains) > 0
              THEN filterByDomain(f2, criteria.domains)
              ELSE f2
        f4 == IF Len(criteria.excludeDomains) > 0
              THEN FilterSeq(f3, { l \in Range(f3) :
                       ~ UrlParses(l.url)
                       \/ ~ HostMatches(Hostname(l.url), criteria.excludeDomains) })
              ELSE f3
        f5 == IF criteria.urlPattern # ""
              THEN FilterSeq(links, { l \in Range(links) :
                       matchesPattern(l.url, criteria.urlPattern) })
              ELSE f4
        f6 == IF Len(criteria.protocols) > 0
              THEN FilterSeq(f5, { l \in Range(f5) :
                       \E i \in 1..Len(criteria.protocols) :
                           NormalizeProtocol(criteria.protocols[i]) = l.protocol })
              ELSE f5
    IN  f6

\* LinkFilter.filter
filter(links, criteria) ==
    LET f1 == IF criteria.internalOnly
              THEN FilterSeq(links, { l \in Range(links) : l.isInternal })
              ELSE links
        f2 == IF criteria.externalOnly
              THEN FilterSeq(f1, { l \in Range(f1) : l.isExternal })
              ELSE f1
        f3 == IF Len(criteria.domains) > 0
              THEN filterByDomain(f2, criteria.domains)
              ELSE f2
        f4 == IF Len(criteria.excludeDomains) > 0
              THEN FilterSeq(f3, { l \in Range(f3) :
                       ~ UrlParses(l.url)
                       \/ ~ HostMatches(Hostname(l.url), criteria.excludeDomains) })
              ELSE f3
        f5 == IF criteria.urlPattern # ""
              THEN FilterSeq(f4, { l \in Range(f4) :
                       matchesPattern(l.url, criteria.urlPattern) })
              ELSE f4
        f6 == IF Len(criteria.protocols) > 0
              THEN FilterSeq(f5, { l \in Range(f5) :
                       \E i \in 1..Len(criteria.protocols) :
                           NormalizeProtocol(criteria.protocols[i]) = l.protocol })
              ELSE f5
    IN  f6

(***************************************************************************)
(* LinkExtractorService: the synchronous pipeline of extract               *)
(***************************************************************************)
\* the characters \s matches
JsSpace == { " ", "\t", "\n" }

LowerAZ == << "a", "b", "c", "d", "e", "f", "g", "h", "i", "j", "k", "l", "m",
              "n", "o", "p", "q", "r", "s", "t", "u", "v", "w", "x", "y", "z" >>

UpperAZ == << "A", "B", "C", "D", "E", "F", "G", "H", "I", "J", "K", "L", "M",
              "N", "O", "P", "Q", "R", "S", "T", "U", "V", "W", "X", "Y", "Z" >>

IndexIn(s, c) == CHOOSE i \in 1..Len(s) : s[i] = c

\* String.prototype.toUpperCase and toLowerCase of one character
toUpperCase(c) ==
    IF c \in Range(LowerAZ) THEN UpperAZ[IndexIn(LowerAZ, c)]
    ELSE IF c = "é" THEN "É" ELSE c

toLowerCase(c) ==
    IF c \in Range(UpperAZ) THEN LowerAZ[IndexIn(UpperAZ, c)]
    ELSE IF c = "É" THEN "é" ELSE c

\* String.prototype.split for a one-character separator
RECURSIVE SplitChars(_, _)
SplitChars(s, seps) ==
    IF \E i \in 1..Len(s) : s[i] \in seps
    THEN LET i == CHOOSE k \in 1..Len(s) :
                      s[k] \in seps /\ \A j \in 1..(k - 1) : s[j] \notin seps
         IN  << SubSeq(s, 1, i - 1) >> \o SplitChars(SubSeq(s, i + 1, Len(s)), seps)
    ELSE << s >>

Nofollow == << "n", "o", "f", "o", "l", "l", "o", "w" >>

\* MetadataCollector.detectNoFollow; rel is a sequence of characters, a
\* missing rel is the empty sequence or no field at all.  Splitting at every
\* whitespace character gives the parts split(/\s+/) gives, and empty ones
detectNoFollow(link) ==
    IF "rel" \notin DOMAIN link \/ link.rel = << >> THEN FALSE
    ELSE LET lower == [ i \in 1..Len(link.rel) |-> toLowerCase(link.rel[i]) ]
         IN  Nofollow \in Range(SplitChars(lower, JsSpace))

\* MetadataCollector.extractParentContext; a missing parentTag is "" or no
\* field at all
extractParentContext(link) ==
    IF "parentTag" \notin DOMAIN link \/ link.parentTag = "" THEN "unknown"
    ELSE link.parentTag

RECURSIVE collectFrom(_, _, _)
\* collectFrom overwriting the entry at every observation of its URL
collectFrom_LastWins(rawLinks, index, metadataMap) ==
    IF index > Len(rawLinks) THEN metadataMap
    ELSE LET url == rawLinks[index].href
         IN  IF url \notin DOMAIN metadataMap
             THEN collectFrom(rawLinks, index + 1,
                      metadataMap @@ (url :> [ occurrences |-> 1,
                                               hasNoFollow |-> detectNoFollow(rawLinks[index]),
                                               parentContext |-> extractParentContext(rawLinks[index]),
                                               position |-> index - 1 ]))
             ELSE collectFrom(rawLinks, index + 1,
                      [ metadataMap EXCEPT ![url] =
                          [ occurrences |-> @.occurrences + 1,
                            hasNoFollow |-> detectNoFollow(rawLinks[index]),
                            parentContext |-> extractParentContext(rawLinks[index]),
                            position |-> index - 1 ] ])

\* the forEach of collectMetadata from observation number index on
collectFrom(rawLinks, index, metadataMap) ==
    IF index > Len(rawLinks) THEN metadataMap
    ELSE LET url == rawLinks[index].href
         IN  IF url \notin DOMAIN metadataMap
             THEN collectFrom(rawLinks, index + 1,
                      metadataMap @@ (url :> [ occurrences |-> 1,
                                               hasNoFollow |-> detectNoFollow(rawLinks[index]),
                                               parentContext |-> extractParentContext(rawLinks[index]),
                                               position |-> index - 1 ]))
             ELSE collectFrom(rawLinks, index + 1,
                      [ metadataMap EXCEPT ![url].occurrences = @ + 1 ])

\* MetadataCollector.collectMetadata
collectMetadata(rawLinks) == collectFrom(rawLinks, 1, << >>)

\* the metadata of a link when none was collected for it
DefaultMetadata(rawLink) ==
    [ occurrences |-> 1, hasNoFollow |-> FALSE,
      parentContext |-> extractParentContext(rawLink), position |-> 0 ]

\* makeLink with isExternal as the negation of isInternal
makeLink_ExternalIsNotInternal(rawLink, baseUrl, metadataMap, includeMetadata) ==
    LET protocol == identifyProtocol(rawLink.href)
        isInternal == isInternalLink(rawLink.href, baseUrl)
        isExternal == ~ isInternal
    IN  [ url |-> rawLink.href,
          protocol |-> protocol,
          isInternal |-> isInternal,
          isExternal |-> isExternal,
          metadata |-> IF includeMetadata /\ rawLink.href \in DOMAIN metadataMap
                       THEN metadataMap[rawLink.href]
                       ELSE DefaultMetadata(rawLink) ]

\* makeLink that never consults the metadata map
makeLink_DefaultMetadata(rawLink, baseUrl, metadataMap, includeMetadata) ==
    LET protocol == identifyProtocol(rawLink.href)
        isInternal == isInternalLink(rawLink.href, baseUrl)
        isExternal == ~ isInternal /\ protocol \in { "http", "https" }
    IN  [ url |-> rawLink.href,
          protocol |-> protocol,
          isInternal |-> isInternal,
          isExternal |-> isExternal,
          metadata |-> DefaultMetadata(rawLink) ]

\* processRawLinks, lines 201-229: the Link built for one observation
makeLink(rawLink, baseUrl, metadataMap, includeMetadata) ==
    LET protocol == identifyProtocol(rawLink.href)
        isInternal == isInternalLink(rawLink.href, baseUrl)
        isExternal == ~ isInternal /\ protocol \in { "http", "https" }
    IN  [ url |-> rawLink.href,
          protocol |-> protocol,
          isInternal |-> isInternal,
          isExternal |-> isExternal,
          metadata |-> IF includeMetadata /\ rawLink.href \in DOMAIN metadataMap
                       THEN metadataMap[rawLink.href]
                       ELSE DefaultMetadata(rawLink) ]

RECURSIVE processRawLinks(_, _, _, _)
processRawLinks(rawLinks, baseUrl, metadataMap, includeMetadata) ==
    IF rawLinks = << >> THEN << >>
    ELSE LET rawLink == Head(rawLinks)
             rest == processRawLinks(Tail(rawLinks), baseUrl, metadataMap,
                                     includeMetadata)
         IN  IF Trim(rawLink.href) = << >> THEN rest
             ELSE << makeLink(rawLink, baseUrl, metadataMap, includeMetadata) >>
                     \o rest

RECURSIVE dedupFrom(_, _)
dedupFrom(links, seen) ==
    IF links = << >> THEN << >>
    ELSE IF Head(links).url \in seen THEN dedupFrom(Tail(links), seen)
         ELSE << Head(links) >>
                 \o dedupFrom(Tail(links), seen \cup { Head(links).url })

\* deduplicateLinks keeping the last occurrence of every URL
deduplicateLinks_KeepsLast(links) ==
    LET rev(s) == [ k \in 1..Len(s) |-> s[Len(s) + 1 - k] ]
    IN  rev(dedupFrom(rev(links), { }))

deduplicateLinks(links) == dedupFrom(links, { })

\* generateStatistics counting only http and https in protocolBreakdown
generateStatistics_HttpBreakdown(links) ==
    [ totalLinks |-> Len(links),
      uniqueLinks |-> Len(links),
      internalLinks |-> Cardinality({ i \in 1..Len(links) : links[i].isInternal }),
      externalLinks |-> Cardinality({ i \in 1..Len(links) : links[i].isExternal }),
      protocolBreakdown |->
          [ p \in { links[i].protocol : i \in 1..Len(links) } \cap { "http", "https" } |->
                Cardinality({ i \in 1..Len(links) : links[i].protocol = p }) ] ]

\* generateStatistics counting every link that is not internal as external
generateStatistics_ExternalIsRest(links) ==
    [ totalLinks |-> Len(links),
      uniqueLinks |-> Len(links),
      internalLinks |-> Cardinality({ i \in 1..Len(links) : links[i].isInternal }),
      externalLinks |-> Cardinality({ i \in 1..Len(links) : ~ links[i].isInternal }),
      protocolBreakdown |->
          [ p \in { links[i].protocol : i \in 1..Len(links) } |->
                Cardinality({ i \in 1..Len(links) : links[i].protocol = p }) ] ]

generateStatistics(links) ==
    [ totalLinks |-> Len(links),
      uniqueLinks |-> Len(links),
      internalLinks |-> Cardinality({ i \in 1..Len(links) : links[i].isInternal }),
      externalLinks |-> Cardinality({ i \in 1..Len(links) : links[i].isExternal }),
      protocolBreakdown |->
          [ p \in { links[i].protocol : i \in 1..Len(links) } |->
                Cardinality({ i \in 1..Len(links) : links[i].protocol = p }) ] ]

\* LinkParser.parseLinks after page.evaluate: normalise every href
normalizeAll(observed, baseUrl) ==
    [ i \in 1..Len(observed) |->
        [ observed[i] EXCEPT !.href = normalizeUrl(observed[i].href, baseUrl) ] ]

\* extract, lines 86-102: what links holds when the inner try completes
ExtractLinks(observed, url, opts) ==
    LET rawLinks == normalizeAll(observed, url)
        metadataMap == IF opts.includeMetadata THEN collectMetadata(rawLinks)
                       ELSE << >>
        unique == deduplicateLinks(
                      processRawLinks(rawLinks, url, metadataMap,
                                      opts.includeMetadata))
    IN  IF opts.filter # None THEN filter(unique, opts.filter) ELSE unique

\* extract, lines 119-128: the value extract resolves with
ExtractionResult(url, links, errors) ==
    [ sourceUrl |-> url, links |-> links,
      statistics |-> generateStatistics(links), errors |-> errors ]

(***************************************************************************)
(* Inputs                                                                  *)
(***************************************************************************)
HostPool == << "a.com", "b.com", "c.com", "d.com", "e.com" >>

\* the n-th URL handed to processBatch
UrlOf(n) == << "https://", HostPool[n] >>

ArrayInputs ==
    { [ kind |-> "array", value |-> [ i \in 1..n |-> UrlOf(i) ] ] : n \in 0..MaxUrls }

\* lines of a batch file: blank, whitespace only, comments, a padded URL
FileLinePool ==
    { << >>, << " ", "\t" >>, << "#", "https://", "a.com" >>,
      << " ", "#" >>, << " ", "https://", "a.com", " " >> }

\* content.split('\n') of a readable file never yields zero lines
FileInputs ==
    { [ kind |-> "file", value |-> lines ] :
        lines \in UNION { [ 1..n -> FileLinePool ] : n \in 1..MaxFileLines } }
    \cup { [ kind |-> "unreadable", value |-> << >> ] }

\* options.concurrency; 0 stands for both 0 and undefined, which `||` treats
\* alike, -1 for the negative numbers
ConcurrencyOpts == { -1, 0, 1, 2 }

\* the calls of processBatch: URL arrays under every concurrency option,
\* files processed one URL at a time
BatchCalls ==
    (ArrayInputs \X ConcurrencyOpts) \cup (FileInputs \X { 1 })

\* the anchors the renderer can report for a page (href as written in the page)
ObservedPool ==
    { << >>,
      << [ href |-> << "/", "x" >> ],
         [ href |-> << "https://", "b.com" >> ],
         [ href |-> << "/", "x" >> ] >> }

\* outcomes of page.goto: navigated, navigation timeout, navigation failure,
\* or a response with the given status
GotoOutcomes == { "ok", "timeout", "failed", "401", "403" }

(***************************************************************************)
(* ErrorHandler: redirect chains and log.  The batch and extract           *)
(* specifications below load pages that answer without redirects and do    *)
(* not follow the handler's log; SpecRedirect drives the handler itself.   *)
(***************************************************************************)
\* a new ErrorHandler()
HandlerIdle ==
    /\ redirectChains = << >>
    /\ logs = << >>
    /\ verbose = FALSE
    /\ hops = << >>
    /\ lastOp = "none"

\* no call of a pure method is under study
CallIdle ==
    /\ args = None
    /\ returned = None

\* the services and the page loader after construction, no call under way
ServicesIdle ==
    /\ input = [ kind |-> "none", value |-> << >> ]
    /\ options = [ concurrency |-> 0, filter |-> None, includeMetadata |-> FALSE ]
    /\ bpc = "none"
    /\ urls = << >>
    /\ concurrency = 0
    /\ queue = << >>
    /\ inProgress = { }
    /\ results = << >>
    /\ batchResult = None
    /\ batchError = None
    /\ calls = << >>
    /\ browser = 0
    /\ context = 0
    /\ launched = { }
    /\ openBrowsers = { }
    /\ openContexts = { }
    /\ openPages = { }
    /\ createdPages = { }
    /\ target = << >>
    /\ maxRetries = 0
    /\ rpc = "none"
    /\ retryCount = 0
    /\ lastError = None
    /\ sleeps = << >>
    /\ retryResult = None
    /\ retryError = None

(***************************************************************************)
(* Event loop priority                                                     *)
(***************************************************************************)
\* an extract() promise has settled and its awaiter has not yet resumed
MicrotaskPending == \E i \in 1..Len(calls) : calls[i].pc \in { "returned", "threw" }

\* the caller of extract is suspended in an await
MainSuspended == bpc = "waiting" \/ rpc = "awaiting"

\* an I/O completion can be delivered
IoReady == MainSuspended /\ ~ MicrotaskPending

(***************************************************************************)
(* LinkExtractorService.extract / PageLoader.load, one call                *)
(***************************************************************************)
\* exceptions that can leave extract: its try block catches everything, so
\* only the logging calls made outside it (the injected ErrorHandler's info
\* and handleError) can make extract reject
Faults == { "none", "Error" }

\* the exception of a fault
FaultError(fault, url) ==
    CASE fault = "none" -> None
      [] fault = "Error" -> PlainError(url)
      [] fault = "NetworkError" -> NetworkError(url, 0, None)
      [] fault = "TimeoutError" -> TimeoutError(url)

\* extract up to its first await (inside PageLoader.load); fault = the
\* exception raised outside extract's try block, if any
NewCall(url, fault) ==
    [ url |-> url,
      pc |-> IF fault # "none" THEN "threw"
             ELSE IF browser = 0 THEN "launch" ELSE "context",
      session |-> IF fault = "none" THEN browser ELSE 0,
                           \* the browser newContext is called on, 0 before
                           \* this call's own launch settles
      outcome |-> "none",  \* how page.goto settled
      observed |-> << >>,  \* the anchors page.evaluate reported
      err |-> None,        \* what extract's catch block caught
      links |-> << >>,     \* extract: let links
      result |-> None,     \* what extract resolved with
      thrown |-> FaultError(fault, url) ]

\* Failed with the caught error left out of the result
Failed_DropsError(call, error) ==
    [ call EXCEPT !.pc = "returned", !.err = error, !.links = << >>,
                  !.result = ExtractionResult(call.url, << >>, << >>) ]

\* extract's catch block and return, after load or the inner try has thrown
Failed(call, error) ==
    [ call EXCEPT !.pc = "returned", !.err = error, !.links = << >>,
                  !.result = ExtractionResult(call.url, << >>, << error >>) ]

\* PageLoader.load's outer catch: TimeoutError and NetworkError pass,
\* everything else is wrapped
LoadCatch(url, error) ==
    IF error.name \in { "TimeoutError", "NetworkError" } THEN error
    ELSE NetworkError(url, 0, error)

\* chromium.launch settles
LaunchDone(i, ok) ==
    /\ IoReady
    /\ calls[i].pc = "launch"
    /\ IF ok
       THEN /\ browser' = i
            /\ launched' = launched \cup { i }
            /\ openBrowsers' = openBrowsers \cup { i }
            /\ calls' = [ calls EXCEPT ![i].pc = "context", ![i].session = i ]
       ELSE /\ calls' = [ calls EXCEPT
                 ![i] = Failed(@, LoadCatch(@.url, PlainError(@.url))) ]
            /\ UNCHANGED << browser, launched, openBrowsers >>
    /\ UNCHANGED << context, openContexts, openPages, createdPages >>
    /\ UNCHANGED batchVars
    /\ UNCHANGED << handlerVars, callVars >>
    /\ UNCHANGED retryVars

\* browser.newContext settles; no cookies are configured, so context.newPage
\* is called in the same turn
ContextDone(i) ==
    /\ IoReady
    /\ calls[i].pc = "context"
    /\ context' = i
    /\ openContexts' = openContexts \cup { i }
    /\ calls' = [ calls EXCEPT ![i].pc = "newpage" ]
    /\ UNCHANGED << browser, launched, openBrowsers, openPages, createdPages >>
    /\ UNCHANGED batchVars
    /\ UNCHANGED << handlerVars, callVars >>
    /\ UNCHANGED retryVars

\* context.newPage settles; page.goto is called
PageDone(i) ==
    /\ IoReady
    /\ calls[i].pc = "newpage"
    /\ openPages' = openPages \cup { i }
    /\ createdPages' = createdPages \cup { i }
    /\ calls' = [ calls EXCEPT ![i].pc = "goto" ]
    /\ UNCHANGED << browser, context, launched, openBrowsers, openContexts >>
    /\ UNCHANGED batchVars
    /\ UNCHANGED << handlerVars, callVars >>
    /\ UNCHANGED retryVars

\* the error PageLoader.load rejects with for a goto outcome other than "ok"
GotoError(url, outcome) ==
    CASE outcome = "timeout" -> TimeoutError(url)
      [] outcome = "failed" -> NetworkError(url, 0, PlainError(url))
      [] outcome = "401" -> LoadCatch(url, AuthenticationError(url, 401))
      [] outcome = "403" -> LoadCatch(url, AuthenticationError(url, 403))

\* page.goto settles.  After a successful navigation waitForContent runs; its
\* awaits change nothing and its failures are swallowed, so load's return of
\* the page and extract's call of parseLinks are taken in the same step.
GotoDone(i, outcome) ==
    /\ IoReady
    /\ calls[i].pc = "goto"
    /\ calls' = [ calls EXCEPT ![i] =
           IF outcome = "ok" THEN [ @ EXCEPT !.pc = "parse", !.outcome = outcome ]
           ELSE Failed([ @ EXCEPT !.outcome = outcome ],
                       GotoError(@.url, outcome)) ]
    /\ UNCHANGED loaderVars
    /\ UNCHANGED retryVars
    /\ UNCHANGED batchVars
    /\ UNCHANGED << handlerVars, callVars >>
    /\ UNCHANGED retryVars

\* page.evaluate settles with the anchors, or rejects; the rest of the inner
\* try runs and the finally block calls closePage
ParseDone(i, ok, observed) ==
    /\ IoReady
    /\ calls[i].pc = "parse"
    /\ calls' = [ calls EXCEPT ![i] =
           IF ok
           THEN [ @ EXCEPT !.pc = "close",
                           !.observed = observed,
                           !.links = ExtractLinks(observed, calls[i].url, options) ]
           ELSE [ @ EXCEPT !.pc = "close", !.err = PlainError(calls[i].url) ] ]
    /\ UNCHANGED loaderVars
    /\ UNCHANGED retryVars
    /\ UNCHANGED batchVars
    /\ UNCHANGED << handlerVars, callVars >>
    /\ UNCHANGED retryVars

\* page.close settles (closePage swallows a failure); extract returns
CloseDone(i) ==
    /\ IoReady
    /\ calls[i].pc = "close"
    /\ openPages' = openPages \ { i }
    /\ calls' = [ calls EXCEPT ![i] =
           IF @.err # None THEN Failed(@, @.err)
           ELSE [ @ EXCEPT !.pc = "returned",
                           !.result = ExtractionResult(calls[i].url,
                                                       calls[i].links, << >>) ] ]
    /\ UNCHANGED << browser, context, launched, openBrowsers, openContexts,
                    createdPages >>
    /\ UNCHANGED batchVars
    /\ UNCHANGED << handlerVars, callVars >>
    /\ UNCHANGED retryVars

(***************************************************************************)
(* BatchProcessorService                                                   *)
(***************************************************************************)
RECURSIVE usableLines_KeepComments(_)
\* usableLines without the test for '#'
usableLines_KeepComments(lines) ==
    IF lines = << >> THEN << >>
    ELSE LET trimmed == Trim(Head(lines))
         IN  IF trimmed # << >>
             THEN << trimmed >> \o usableLines_KeepComments(Tail(lines))
             ELSE usableLines_KeepComments(Tail(lines))

RECURSIVE usableLines(_)
\* readUrlsFromFile, lines 72-79
usableLines(lines) ==
    IF lines = << >> THEN << >>
    ELSE LET trimmed == Trim(Head(lines))
         IN  IF trimmed # << >> /\ ~ StartsWith(trimmed, "#")
             THEN << trimmed >> \o usableLines(Tail(lines))
             ELSE usableLines(Tail(lines))

\* options.concurrency || 3
EffectiveConcurrency(opt) == IF opt = 0 THEN DefaultConcurrency ELSE opt

\* failedResult without the caught error
failedResult_NoError(url, error) ==
    [ sourceUrl |-> url, links |-> << >>,
      statistics |-> [ totalLinks |-> 0, uniqueLinks |-> 0, internalLinks |-> 0,
                       externalLinks |-> 0, protocolBreakdown |-> << >> ],
      errors |-> << >> ]

\* processUrl's catch block: the result pushed for an extraction that threw
failedResult(url, error) ==
    [ sourceUrl |-> url, links |-> << >>,
      statistics |-> [ totalLinks |-> 0, uniqueLinks |-> 0, internalLinks |-> 0,
                       externalLinks |-> 0, protocolBreakdown |-> << >> ],
      errors |-> << error >> ]

\* generateSummary counting a result as successful only when it has links
generateSummary_NeedsLinks(us, rs) ==
    LET ok == { i \in 1..Len(rs) : Len(rs[i].errors) = 0 /\ Len(rs[i].links) > 0 }
        bad == { i \in 1..Len(rs) : i \notin ok }
    IN  [ totalUrls |-> Len(us),
          successfulUrls |-> Cardinality(ok),
          failedUrls |-> Cardinality(bad),
          totalLinks |-> SeqSum([ i \in 1..Len(rs) |->
                            IF i \in ok THEN Len(rs[i].links) ELSE 0 ]),
          errors |-> Flatten([ i \in 1..Len(rs) |->
                        IF i \in bad
                        THEN [ k \in 1..Len(rs[i].errors) |->
                                 [ url |-> rs[i].sourceUrl, error |-> rs[i].errors[k] ] ]
                        ELSE << >> ]) ]

\* generateSummary pairing every error with the first input URL
generateSummary_WrongUrl(us, rs) ==
    LET ok == { i \in 1..Len(rs) : Len(rs[i].errors) = 0 }
        bad == { i \in 1..Len(rs) : Len(rs[i].errors) # 0 }
    IN  [ totalUrls |-> Len(us),
          successfulUrls |-> Cardinality(ok),
          failedUrls |-> Cardinality(bad),
          totalLinks |-> SeqSum([ i \in 1..Len(rs) |->
                            IF i \in ok THEN Len(rs[i].links) ELSE 0 ]),
          errors |-> Flatten([ i \in 1..Len(rs) |->
                        IF i \in bad
                        THEN [ k \in 1..Len(rs[i].errors) |->
                                 [ url |-> us[1], error |-> rs[i].errors[k] ] ]
                        ELSE << >> ]) ]

\* generateSummary
generateSummary(us, rs) ==
    LET ok == { i \in 1..Len(rs) : Len(rs[i].errors) = 0 }
        bad == { i \in 1..Len(rs) : Len(rs[i].errors) # 0 }
    IN  [ totalUrls |-> Len(us),
          successfulUrls |-> Cardinality(ok),
          failedUrls |-> Cardinality(bad),
          totalLinks |-> SeqSum([ i \in 1..Len(rs) |->
                            IF i \in ok THEN Len(rs[i].links) ELSE 0 ]),
          errors |-> Flatten([ i \in 1..Len(rs) |->
                        IF i \in bad
                        THEN [ k \in 1..Len(rs[i].errors) |->
                                 [ url |-> rs[i].sourceUrl, error |-> rs[i].errors[k] ] ]
                        ELSE << >> ]) ]

\* processBatch up to the first await of processWithConcurrency's loop:
\* resolve the URL list, validate it, set up queue and results
ProcessBatchStart ==
    /\ bpc = "start"
    /\ LET us == IF input.kind = "array" THEN input.value
                 ELSE usableLines(input.value)
       IN  IF input.kind = "unreadable"
           THEN /\ batchError' = ValidationError("filePath")
                /\ bpc' = "thrown"
                /\ UNCHANGED << urls, concurrency, queue >>
           ELSE IF Len(us) = 0
           THEN /\ batchError' = ValidationError("urls")
                /\ urls' = us
                /\ bpc' = "thrown"
                /\ UNCHANGED << concurrency, queue >>
           ELSE /\ urls' = us
                /\ concurrency' = EffectiveConcurrency(options.concurrency)
                /\ queue' = us
                /\ bpc' = "running"
                /\ UNCHANGED batchError
    /\ UNCHANGED << input, options, inProgress, results, batchResult, calls >>
    /\ UNCHANGED loaderVars
    /\ UNCHANGED retryVars
    /\ UNCHANGED << handlerVars, callVars >>

\* CanAdmit with the cap compared by <= instead of <
CanAdmit_OffByOne == Len(queue) > 0 /\ Cardinality(inProgress) <= concurrency

\* the guard of the inner while loop
CanAdmit == Len(queue) > 0 /\ Cardinality(inProgress) < concurrency

\* Admit taking the URL at the back of the queue
Admit_TakesLast(fault) ==
    /\ bpc = "running"
    /\ CanAdmit
    /\ queue' = SubSeq(queue, 1, Len(queue) - 1)
    /\ calls' = Append(calls, NewCall(queue[Len(queue)], fault))
    /\ inProgress' = inProgress \cup { Len(calls) + 1 }
    /\ UNCHANGED << input, options, bpc, urls, concurrency, results,
                    batchResult, batchError >>
    /\ UNCHANGED loaderVars
    /\ UNCHANGED retryVars
    /\ UNCHANGED << handlerVars, callVars >>

\* one iteration of the inner while loop: queue.shift(), processUrl(url) runs
\* up to its first await, inProgress.add(task)
Admit(fault) ==
    /\ bpc = "running"
    /\ CanAdmit
    /\ queue' = Tail(queue)
    /\ calls' = Append(calls, NewCall(Head(queue), fault))
    /\ inProgress' = inProgress \cup { Len(calls) + 1 }
    /\ UNCHANGED << input, options, bpc, urls, concurrency, results,
                    batchResult, batchError >>
    /\ UNCHANGED loaderVars
    /\ UNCHANGED retryVars
    /\ UNCHANGED << handlerVars, callVars >>

\* await Promise.race(inProgress)
AwaitRace ==
    /\ bpc = "running"
    /\ ~ CanAdmit
    /\ Cardinality(inProgress) > 0
    /\ bpc' = "waiting"
    /\ UNCHANGED << input, options, urls, concurrency, queue, inProgress,
                    results, batchResult, batchError, calls >>
    /\ UNCHANGED loaderVars
    /\ UNCHANGED retryVars
    /\ UNCHANGED << handlerVars, callVars >>

\* processUrl resumes after its extract() settled: push the result (or the
\* failed result), the task settles, its finally callback removes it from
\* inProgress and the pending Promise.race resolves
ProcessUrlResume(i) ==
    /\ MainSuspended
    /\ i \in inProgress
    /\ calls[i].pc \in { "returned", "threw" }
    /\ results' = Append(results,
           IF calls[i].pc = "returned" THEN calls[i].result
           ELSE failedResult(calls[i].url, calls[i].thrown))
    /\ inProgress' = inProgress \ { i }
    /\ calls' = [ calls EXCEPT ![i].pc = "done" ]
    /\ bpc' = "running"
    /\ UNCHANGED << input, options, urls, concurrency, queue, batchResult,
                    batchError >>
    /\ UNCHANGED loaderVars
    /\ UNCHANGED retryVars
    /\ UNCHANGED << handlerVars, callVars >>

\* LoopDone for an outer loop that only looks at the queue
LoopDone_QueueOnly == ~ (Len(queue) > 0)

\* the outer while condition is false
LoopDone == ~ (Len(queue) > 0 \/ Cardinality(inProgress) > 0)

\* the outer loop ends; generateSummary; processBatch resolves
ProcessBatchReturn ==
    /\ bpc = "running"
    /\ LoopDone
    /\ batchResult' = [ results |-> results,
                        summary |-> generateSummary(urls, results) ]
    /\ bpc' = "returned"
    /\ UNCHANGED << input, options, urls, concurrency, queue, inProgress,
                    results, batchError, calls >>
    /\ UNCHANGED loaderVars
    /\ UNCHANGED retryVars
    /\ UNCHANGED << handlerVars, callVars >>

\* an iteration of the outer while loop that admits nothing and awaits
\* nothing: the loop condition still holds and no other code can run, so
\* the loop iterates for ever
BusyLoop ==
    /\ bpc = "running"
    /\ ~ LoopDone
    /\ ~ CanAdmit
    /\ ~ (Cardinality(inProgress) > 0)
    /\ bpc' = "spinning"
    /\ UNCHANGED << input, options, urls, concurrency, queue, inProgress,
                    results, batchResult, batchError, calls >>
    /\ UNCHANGED loaderVars
    /\ UNCHANGED retryVars
    /\ UNCHANGED << handlerVars, callVars >>

\* BatchProcessorService.close after the batch has settled, down to
\* PageLoader.close: the context and the browser the loader's fields hold
\* are closed, and with them the pages and contexts inside them
Close ==
    /\ bpc \in { "returned", "thrown" }
    /\ openContexts' = { c \in openContexts :
                           c # context /\ (browser = 0 \/ calls[c].session # browser) }
    /\ openPages' = { q \in openPages :
                        q # context /\ (browser = 0 \/ calls[q].session # browser) }
    /\ openBrowsers' = openBrowsers \ { browser }
    /\ context' = 0
    /\ browser' = 0
    /\ bpc' = "closed"
    /\ UNCHANGED << input, options, urls, concurrency, queue, inProgress,
                    results, batchResult, batchError, calls, launched,
                    createdPages >>
    /\ UNCHANGED retryVars
    /\ UNCHANGED << handlerVars, callVars >>

(***************************************************************************)
(* Specification of one processBatch run                                   *)
(***************************************************************************)
Init ==
    /\ \E c \in BatchCalls :
          /\ input = c[1]
          /\ options = [ concurrency |-> c[2], filter |-> None,
                         includeMetadata |-> FALSE ]
    /\ bpc = "start"
    /\ urls = << >>
    /\ concurrency = 0
    /\ queue = << >>
    /\ inProgress = { }
    /\ results = << >>
    /\ batchResult = None
    /\ batchError = None
    /\ calls = << >>
    /\ browser = 0
    /\ context = 0
    /\ launched = { }
    /\ openBrowsers = { }
    /\ openContexts = { }
    /\ openPages = { }
    /\ createdPages = { }
    /\ target = << >>
    /\ maxRetries = 0
    /\ rpc = "none"
    /\ retryCount = 0
    /\ lastError = None
    /\ sleeps = << >>
    /\ retryResult = None
    /\ retryError = None
    /\ HandlerIdle
    /\ CallIdle

\* a step of a running extract, on pages whose anchors are drawn from pool
ExtractStepOn(pool) ==
    \E i \in 1..Len(calls) :
        \/ \E ok \in BOOLEAN : LaunchDone(i, ok)
        \/ ContextDone(i)
        \/ PageDone(i)
        \/ \E outcome \in GotoOutcomes : GotoDone(i, outcome)
        \/ /\ calls[i].pc = "parse"
           /\ \E ok \in BOOLEAN, observed \in pool : ParseDone(i, ok, observed)
        \/ CloseDone(i)

ExtractStep == ExtractStepOn(ObservedPool)

Next ==
    \/ ProcessBatchStart
    \/ \E fault \in Faults : Admit(fault)
    \/ AwaitRace
    \/ \E i \in 1..Len(calls) : ProcessUrlResume(i)
    \/ ProcessBatchReturn
    \/ ExtractStep
    \/ BusyLoop

Spec == Init /\ [][Next]_vars

NextSession ==
    \/ Next
    \/ Close

\* one processBatch run and the close() that follows it
SpecSession == Init /\ [][NextSession]_vars

(***************************************************************************)
(* LinkExtractorService.extractWithRetry                                   *)
(***************************************************************************)
MaxRetries == 2

BackoffUnitMs == 1000

RECURSIVE Pow2(_)
\* Pow2 with the exponent one too small
Pow2_FromZero(n) == IF n <= 1 THEN 1 ELSE 2 * Pow2(n - 1)

\* Math.pow(2, n)
Pow2(n) == IF n <= 0 THEN 1 ELSE 2 * Pow2(n - 1)

\* the NetworkError built after the loop (lines 168-173)
finalError(url, count, last) == NetworkError(url, count, last)

\* the loop head: the first attempt, or the attempt after a backoff sleep;
\* extract runs up to its first await.  With the loop condition false the
\* code after the loop throws.
RetryAttempt(fault) ==
    /\ rpc \in { "start", "sleeping" }
    /\ IF retryCount <= maxRetries
       THEN /\ calls' = Append(calls, NewCall(target, fault))
            /\ rpc' = "awaiting"
            /\ UNCHANGED retryError
       ELSE /\ retryError' = finalError(target, retryCount, lastError)
            /\ rpc' = "thrown"
            /\ UNCHANGED calls
    /\ UNCHANGED << target, maxRetries, retryCount, lastError, sleeps, retryResult >>
    /\ UNCHANGED batchVars
    /\ UNCHANGED << handlerVars, callVars >>
    /\ UNCHANGED loaderVars

\* RetryResume backing off after an error of any class
RetryResume_AnyError(i) ==
    /\ rpc = "awaiting"
    /\ calls[i].pc \in { "returned", "threw" }
    /\ calls' = [ calls EXCEPT ![i].pc = "done" ]
    /\ IF calls[i].pc = "returned"
       THEN /\ retryResult' = calls[i].result
            /\ rpc' = "returned"
            /\ UNCHANGED << retryCount, lastError, sleeps, retryError >>
       ELSE /\ lastError' = calls[i].thrown
            /\ retryCount' = retryCount + 1
            /\ IF retryCount + 1 <= maxRetries
               THEN /\ sleeps' = Append(sleeps, Pow2(retryCount + 1) * BackoffUnitMs)
                    /\ rpc' = "sleeping"
                    /\ UNCHANGED retryError
               ELSE /\ retryError' = finalError(target, retryCount + 1, calls[i].thrown)
                    /\ rpc' = "thrown"
                    /\ UNCHANGED sleeps
            /\ UNCHANGED retryResult
    /\ UNCHANGED << target, maxRetries >>
    /\ UNCHANGED batchVars
    /\ UNCHANGED << handlerVars, callVars >>
    /\ UNCHANGED loaderVars

\* extractWithRetry resumes after its extract() settled: return the result,
\* or run the catch block (count, then back off or give up)
RetryResume(i) ==
    /\ rpc = "awaiting"
    /\ calls[i].pc \in { "returned", "threw" }
    /\ calls' = [ calls EXCEPT ![i].pc = "done" ]
    /\ IF calls[i].pc = "returned"
       THEN /\ retryResult' = calls[i].result
            /\ rpc' = "returned"
            /\ UNCHANGED << retryCount, lastError, sleeps, retryError >>
       ELSE /\ lastError' = calls[i].thrown
            /\ retryCount' = retryCount + 1
            /\ IF calls[i].thrown.name = "NetworkError" /\ retryCount + 1 <= maxRetries
               THEN /\ sleeps' = Append(sleeps, Pow2(retryCount + 1) * BackoffUnitMs)
                    /\ rpc' = "sleeping"
                    /\ UNCHANGED retryError
               ELSE /\ retryError' = finalError(target, retryCount + 1, calls[i].thrown)
                    /\ rpc' = "thrown"
                    /\ UNCHANGED sleeps
            /\ UNCHANGED retryResult
    /\ UNCHANGED << target, maxRetries >>
    /\ UNCHANGED batchVars
    /\ UNCHANGED << handlerVars, callVars >>
    /\ UNCHANGED loaderVars

\* filter criteria a caller of extract may pass
CriteriaPool ==
    { None,
      [ NoCriteria EXCEPT !.internalOnly = TRUE ],
      [ NoCriteria EXCEPT !.externalOnly = TRUE ] }

InitRetry ==
    /\ input = [ kind |-> "none", value |-> << >> ]
    /\ options \in [ concurrency : { 0 }, filter : CriteriaPool,
                      includeMetadata : { FALSE } ]
    /\ bpc = "none"
    /\ urls = << >>
    /\ concurrency = 0
    /\ queue = << >>
    /\ inProgress = { }
    /\ results = << >>
    /\ batchResult = None
    /\ batchError = None
    /\ calls = << >>
    /\ browser = 0
    /\ context = 0
    /\ launched = { }
    /\ openBrowsers = { }
    /\ openContexts = { }
    /\ openPages = { }
    /\ createdPages = { }
    /\ target = UrlOf(1)
    /\ maxRetries \in 0..MaxRetries
    /\ rpc = "start"
    /\ retryCount = 0
    /\ lastError = None
    /\ sleeps = << >>
    /\ retryResult = None
    /\ retryError = None
    /\ HandlerIdle
    /\ CallIdle

\* the logging calls of extract can also reject with a typed error
RetryFaults == Faults \cup { "NetworkError", "TimeoutError" }

NextRetry ==
    \/ \E fault \in RetryFaults : RetryAttempt(fault)
    \/ \E i \in 1..Len(calls) : RetryResume(i)
    \/ ExtractStep

\* one extractWithRetry call
SpecRetry == InitRetry /\ [][NextRetry]_vars

(***************************************************************************)
(* One extract call on a page with arbitrary anchors                       *)
(***************************************************************************)
MaxAnchors == 3

\* the pages extract is pointed at: a site root, a page in a directory, a
\* local file
TargetPool ==
    { << "https://", "a.com" >>,
      << "https://", "a.com", "/", "d", "/", "p" >>,
      << "file://", "", "/", "d", "/", "p" >> }

\* href attributes as written in the page
HrefPool ==
    { << >>,
      << "/", "x" >>,
      << " ", "/", "x" >>,
      << "y" >>,
      << "https://", "b.com" >>,
      << "mailto:", "m" >> }

\* what page.evaluate can report: up to MaxAnchors anchors in document order
AnchorPool ==
    UNION { [ 1..n -> { [ href |-> h ] : h \in HrefPool } ] : n \in 0..MaxAnchors }

\* filter criteria with one or two fields supplied
FilterPool ==
    { [ NoCriteria EXCEPT !.internalOnly = TRUE ],
      [ NoCriteria EXCEPT !.externalOnly = TRUE ],
      [ NoCriteria EXCEPT !.domains = << "a.com" >> ],
      [ NoCriteria EXCEPT !.excludeDomains = << "b.com" >> ],
      [ NoCriteria EXCEPT !.urlPattern = "x" ],
      [ NoCriteria EXCEPT !.urlPattern = "(" ],
      [ NoCriteria EXCEPT !.protocols = << "https:" >> ],
      [ NoCriteria EXCEPT !.internalOnly = TRUE, !.urlPattern = "x" ] }

\* the options of the extract call: every filter without metadata, and
\* metadata without a filter or with the two-field filter
ExtractOptions ==
    [ concurrency : { 0 }, filter : { None } \cup FilterPool,
      includeMetadata : { FALSE } ]
    \cup [ concurrency : { 0 },
           filter : { None, [ NoCriteria EXCEPT !.internalOnly = TRUE,
                                               !.urlPattern = "x" ] },
           includeMetadata : { TRUE } ]

InitExtract ==
    /\ input = [ kind |-> "none", value |-> << >> ]
    /\ options \in ExtractOptions
    /\ bpc = "none"
    /\ urls = << >>
    /\ concurrency = 0
    /\ queue = << >>
    /\ inProgress = { }
    /\ results = << >>
    /\ batchResult = None
    /\ batchError = None
    /\ calls = << >>
    /\ browser = 0
    /\ context = 0
    /\ launched = { }
    /\ openBrowsers = { }
    /\ openContexts = { }
    /\ openPages = { }
    /\ createdPages = { }
    /\ target \in TargetPool
    /\ maxRetries = 0
    /\ rpc = "start"
    /\ retryCount = 0
    /\ lastError = None
    /\ sleeps = << >>
    /\ retryResult = None
    /\ retryError = None
    /\ HandlerIdle
    /\ CallIdle

NextExtract ==
    \/ \E fault \in Faults : RetryAttempt(fault)
    \/ \E i \in 1..Len(calls) : RetryResume(i)
    \/ ExtractStepOn(AnchorPool)

\* one extract call, made through extractWithRetry without retries
SpecExtract == InitExtract /\ [][NextExtract]_vars

(***************************************************************************)
(* The ErrorHandler of one PageLoader, driven by the responses its pages   *)
(* receive and by its own public operations.  A hop is recorded without    *)
(* its timestamp.                                                          *)
(***************************************************************************)
MaxHops == 3

RedirectUrls == { << "https://", "a.com" >>, << "https://", "b.com" >>,
                  << "https://", "c.com" >> }

\* the responses of a page: URL, status code and location header, << >>
\* when it is missing; a URL does not redirect to itself
Responses ==
    { r \in [ url : RedirectUrls, status : { 200, 301, 401 },
              location : { << >> } \cup RedirectUrls ] : r.location # r.url }

RedirectInfo(from, to, statusCode) ==
    [ from |-> from, to |-> to, statusCode |-> statusCode ]

\* a log entry, its context reduced to the status code
LogEntry(level, message, statusCode) ==
    [ level |-> level, message |-> message, statusCode |-> statusCode ]

\* the redirect chains after trackRedirect(from, to, statusCode): the chain is
\* looked up under the `from` of this hop
trackedChains_KeepsTotal(chains, from, to, statusCode) ==
    IF from \notin DOMAIN chains
    THEN chains @@ (from :> [ originalUrl |-> from, finalUrl |-> to,
                              redirects |-> << RedirectInfo(from, to, statusCode) >>,
                              totalRedirects |-> 1 ])
    ELSE [ chains EXCEPT ![from] =
             [ @ EXCEPT !.redirects = Append(@, RedirectInfo(from, to, statusCode)),
                        !.finalUrl = to ] ]

trackedChains(chains, from, to, statusCode) ==
    IF from \notin DOMAIN chains
    THEN chains @@ (from :> [ originalUrl |-> from, finalUrl |-> to,
                              redirects |-> << RedirectInfo(from, to, statusCode) >>,
                              totalRedirects |-> 1 ])
    ELSE [ chains EXCEPT ![from] =
             [ @ EXCEPT !.redirects = Append(@, RedirectInfo(from, to, statusCode)),
                        !.finalUrl = to,
                        !.totalRedirects = @ + 1 ] ]

\* ErrorHandler.trackRedirect, with its log entry in verbose mode
trackRedirect(from, to, statusCode) ==
    /\ redirectChains' = trackedChains(redirectChains, from, to, statusCode)
    /\ logs' = IF verbose
               THEN Append(logs, LogEntry("INFO", "Redirect", statusCode))
               ELSE logs
    /\ hops' = Append(hops, RedirectInfo(from, to, statusCode))

\* the page's 'response' listener
OnResponse(url, status, location) ==
    /\ Len(hops) < MaxHops
    /\ Len(logs) < MaxHops
    /\ IF status >= 300 /\ status < 400 /\ location # << >>
       THEN trackRedirect(url, location, status)
       ELSE /\ logs' = IF status = 401 \/ status = 403
                       THEN Append(logs, LogEntry("WARN", "Authentication required",
                                                  status))
                       ELSE logs
            /\ UNCHANGED << redirectChains, hops >>
    /\ lastOp' = "response"
    /\ UNCHANGED verbose
    /\ UNCHANGED << batchVars, calls, loaderVars, retryVars, callVars >>

clearRedirectChains ==
    /\ redirectChains' = << >>
    /\ hops' = << >>
    /\ lastOp' = "clearRedirectChains"
    /\ UNCHANGED << logs, verbose >>
    /\ UNCHANGED << batchVars, calls, loaderVars, retryVars, callVars >>

clearLogs ==
    /\ logs' = << >>
    /\ lastOp' = "clearLogs"
    /\ UNCHANGED << redirectChains, verbose, hops >>
    /\ UNCHANGED << batchVars, calls, loaderVars, retryVars, callVars >>

setVerbose(v) ==
    /\ verbose' = v
    /\ lastOp' = "setVerbose"
    /\ UNCHANGED << redirectChains, logs, hops >>
    /\ UNCHANGED << batchVars, calls, loaderVars, retryVars, callVars >>

\* new ErrorHandler(verbose), with no batch and no extraction under way
InitRedirect ==
    /\ ServicesIdle
    /\ CallIdle
    /\ redirectChains = << >>
    /\ logs = << >>
    /\ verbose \in BOOLEAN
    /\ hops = << >>
    /\ lastOp = "none"

NextRedirect ==
    \/ \E r \in Responses : OnResponse(r.url, r.status, r.location)
    \/ clearRedirectChains
    \/ clearLogs
    \/ \E v \in BOOLEAN : setVerbose(v)

SpecRedirect == InitRedirect /\ [][NextRedirect]_vars

(***************************************************************************)
(* DescriptionGenerator.  Its strings are sequences of one-character       *)
(* strings; a fixed phrase of the code is one element.                     *)
(***************************************************************************)
MaxText == 3

\* the characters \w matches: ASCII letters, digits and the underscore
IsWordChar(c) ==
    c \in Range(LowerAZ) \cup Range(UpperAZ)
           \cup { "0", "1", "2", "3", "4", "5", "6", "7", "8", "9", "_" }

\* the characters [^\w\s] matches
IsOtherChar(c) == ~ IsWordChar(c) /\ c \notin JsSpace

RECURSIVE DropWhile(_, _)
DropWhile(s, set) ==
    IF s # << >> /\ Head(s) \in set THEN DropWhile(Tail(s), set) ELSE s

RECURSIVE DropEndWhile(_, _)
DropEndWhile(s, set) ==
    IF s # << >> /\ s[Len(s)] \in set
    THEN DropEndWhile(SubSeq(s, 1, Len(s) - 1), set) ELSE s

\* String.prototype.trim on characters
JsTrim(s) == DropEndWhile(DropWhile(s, JsSpace), JsSpace)

IsBlank(s) == JsTrim(s) = << >>

\* replace(/\s+/g, ' '); the replacements of \n+ and \t+ that follow it find
\* nothing left to replace
RECURSIVE CollapseSpaces(_)
CollapseSpaces(s) ==
    IF s = << >> THEN << >>
    ELSE IF Head(s) \in JsSpace
         THEN << " " >> \o CollapseSpaces(DropWhile(s, JsSpace))
         ELSE << Head(s) >> \o CollapseSpaces(Tail(s))

RECURSIVE DropOtherStart(_)
DropOtherStart(s) ==
    IF s # << >> /\ IsOtherChar(Head(s)) THEN DropOtherStart(Tail(s)) ELSE s

RECURSIVE DropOtherEnd(_)
DropOtherEnd(s) ==
    IF s # << >> /\ IsOtherChar(s[Len(s)])
    THEN DropOtherEnd(SubSeq(s, 1, Len(s) - 1)) ELSE s

maxLength == 200

\* String.prototype.lastIndexOf, zero-based, -1 when absent
lastIndexOf(s, c) ==
    IF \E i \in 1..Len(s) : s[i] = c
    THEN (CHOOSE i \in 1..Len(s) :
             s[i] = c /\ \A j \in (i + 1)..Len(s) : s[j] # c) - 1
    ELSE -1

cleanText(text) ==
    IF text = << >> THEN << >>
    ELSE LET \* replace(/^[^\w\s]+|[^\w\s]+$/g, '') after the whitespace
             stripped == DropOtherEnd(DropOtherStart(JsTrim(CollapseSpaces(text))))
             truncated == SubSeq(stripped, 1, maxLength)
             lastSpace == lastIndexOf(truncated, " ")
         IN  IF Len(stripped) > maxLength
             THEN IF lastSpace * 10 > maxLength * 8
                  THEN SubSeq(truncated, 1, lastSpace) \o << ".", ".", "." >>
                  ELSE truncated \o << ".", ".", "." >>
             ELSE stripped

\* String.prototype.startsWith on characters
StartsWithChars(s, prefix) ==
    Len(s) >= Len(prefix) /\ SubSeq(s, 1, Len(prefix)) = prefix

HttpPrefix == << "h", "t", "t", "p", ":", "/", "/" >>
HttpsPrefix == << "h", "t", "t", "p", "s", ":", "/", "/" >>
WwwPrefix == << "w", "w", "w", "." >>

\* Array.prototype.filter(part => part.length > 0)
RECURSIVE NonEmpty(_)
NonEmpty(parts) ==
    IF parts = << >> THEN << >>
    ELSE IF Head(parts) = << >> THEN NonEmpty(Tail(parts))
         ELSE << Head(parts) >> \o NonEmpty(Tail(parts))

\* Array.prototype.join
RECURSIVE JoinChars(_, _)
JoinChars(parts, sep) ==
    IF parts = << >> THEN << >>
    ELSE IF Len(parts) = 1 THEN Head(parts)
         ELSE Head(parts) \o sep \o JoinChars(Tail(parts), sep)

capitalizeWords(text) ==
    LET words == NonEmpty(SplitChars(text, JsSpace))
    IN  JoinChars([ i \in 1..Len(words) |->
                        [ k \in 1..Len(words[i]) |->
                            IF k = 1 THEN toUpperCase(words[i][k])
                            ELSE toLowerCase(words[i][k]) ] ],
                  << " " >>)

formatDomain(domain) ==
    LET bare == IF StartsWithChars(domain, WwwPrefix)
                THEN SubSeq(domain, Len(WwwPrefix) + 1, Len(domain))
                ELSE domain
        parts == SplitChars(bare, { "." })
    IN  capitalizeWords(IF Len(parts) > 1 THEN parts[1] ELSE bare)

\* replace(/([a-z])([A-Z])/g, '$1 $2')
RECURSIVE SplitCamelCase(_)
SplitCamelCase(s) ==
    IF s = << >> THEN << >>
    ELSE IF Len(s) >= 2 /\ s[1] \in Range(LowerAZ) /\ s[2] \in Range(UpperAZ)
         THEN << s[1], " ", s[2] >> \o SplitCamelCase(SubSeq(s, 3, Len(s)))
         ELSE << Head(s) >> \o SplitCamelCase(Tail(s))

\* the segments of DescHrefPool hold no percent escape, so that
\* decodeURIComponent returns them as they are
formatPathSegment(segment) ==
    SplitCamelCase([ i \in 1..Len(segment) |->
                       IF segment[i] \in { "-", "_", "+" } THEN " " ELSE segment[i] ])

\* the extensions /\.(html?|php|aspx?|jsp)$/i matches
Extensions ==
    { << ".", "h", "t", "m" >>, << ".", "h", "t", "m", "l" >>,
      << ".", "p", "h", "p" >>, << ".", "a", "s", "p" >>,
      << ".", "a", "s", "p", "x" >>, << ".", "j", "s", "p" >> }

RemoveExtension(s) ==
    LET lower == [ i \in 1..Len(s) |-> toLowerCase(s[i]) ]
        found == { e \in Extensions :
                     /\ Len(lower) >= Len(e)
                     /\ SubSeq(lower, Len(lower) - Len(e) + 1, Len(lower)) = e }
    IN  IF found = { } THEN s
        ELSE SubSeq(s, 1, Len(s) - Len(CHOOSE e \in found : TRUE))

\* new URL(url) of generateFromUrl, for http and https URLs without port,
\* credentials or dot segments; every other reference of DescHrefPool is
\* relative and makes the constructor throw
AfterScheme(url) ==
    IF StartsWithChars(url, HttpsPrefix)
    THEN SubSeq(url, Len(HttpsPrefix) + 1, Len(url))
    ELSE IF StartsWithChars(url, HttpPrefix)
         THEN SubSeq(url, Len(HttpPrefix) + 1, Len(url))
         ELSE url

UrlObjHostname(url) ==
    LET host == Head(SplitChars(AfterScheme(url), { "/", "?", "#" }))
    IN  [ i \in 1..Len(host) |-> toLowerCase(host[i]) ]

UrlObjParses(url) ==
    /\ StartsWithChars(url, HttpsPrefix) \/ StartsWithChars(url, HttpPrefix)
    /\ UrlObjHostname(url) # << >>

UrlObjPathname(url) ==
    LET rest == AfterScheme(url)
        tail == SubSeq(rest, Len(UrlObjHostname(url)) + 1, Len(rest))
        path == Head(SplitChars(tail, { "?", "#" }))
    IN  IF path = << >> THEN << "/" >> ELSE path

fallbackUrlDescription(url) ==
    LET noScheme == AfterScheme(url)
        noWww == IF StartsWithChars(noScheme, WwwPrefix)
                 THEN SubSeq(noScheme, Len(WwwPrefix) + 1, Len(noScheme))
                 ELSE noScheme
        noQuery == Head(SplitChars(noWww, { "?", "#" }))
        cleaned == IF noQuery # << >> /\ noQuery[Len(noQuery)] = "/"
                   THEN SubSeq(noQuery, 1, Len(noQuery) - 1) ELSE noQuery
        firstPart == Head(SplitChars(cleaned, { "/" }))
    IN  IF cleaned = << >> THEN << "Link" >>
        ELSE IF firstPart # << >> THEN formatDomain(firstPart)
             ELSE << "Link" >>

generateFromUrl(url) ==
    IF url = << >> \/ JsTrim(url) = << >> THEN << "Empty link" >>
    ELSE IF StartsWithChars(url, << "m", "a", "i", "l", "t", "o", ":" >>)
         THEN << "Email: " >> \o SubSeq(url, 8, Len(url))
    ELSE IF StartsWithChars(url, << "t", "e", "l", ":" >>)
         THEN << "Phone: " >> \o SubSeq(url, 5, Len(url))
    ELSE IF StartsWithChars(url, << "j", "a", "v", "a", "s", "c", "r", "i", "p",
                                    "t", ":" >>)
         THEN << "JavaScript action" >>
    ELSE IF StartsWithChars(url, << "d", "a", "t", "a", ":" >>) THEN << "Data URI" >>
    ELSE IF ~ UrlObjParses(url) THEN fallbackUrlDescription(url)
    ELSE LET pathname == UrlObjPathname(url)
             segments == NonEmpty(SplitChars(pathname, { "/" }))
             pathParts == [ i \in 1..Len(segments) |-> formatPathSegment(segments[i]) ]
         IN  IF pathname = << "/" >> \/ pathname = << >>
             THEN formatDomain(UrlObjHostname(url))
             ELSE IF Len(pathParts) = 0 THEN formatDomain(UrlObjHostname(url))
                  ELSE capitalizeWords(RemoveExtension(pathParts[Len(pathParts)]))

generate_TitleFirst(rawLink) ==
    IF ~ IsBlank(rawLink.anchorText) THEN cleanText(rawLink.anchorText)
    ELSE IF ~ IsBlank(rawLink.title) THEN cleanText(rawLink.title)
    ELSE IF ~ IsBlank(rawLink.ariaLabel) THEN cleanText(rawLink.ariaLabel)
    ELSE IF ~ IsBlank(rawLink.imageAlt) THEN cleanText(rawLink.imageAlt)
    ELSE generateFromUrl(rawLink.href)

\* a missing attribute is the empty string
generate(rawLink) ==
    IF ~ IsBlank(rawLink.anchorText) THEN cleanText(rawLink.anchorText)
    ELSE IF ~ IsBlank(rawLink.ariaLabel) THEN cleanText(rawLink.ariaLabel)
    ELSE IF ~ IsBlank(rawLink.title) THEN cleanText(rawLink.title)
    ELSE IF ~ IsBlank(rawLink.imageAlt) THEN cleanText(rawLink.imageAlt)
    ELSE generateFromUrl(rawLink.href)

\* texts of a letter, a space, an ASCII punctuation mark and a non-ASCII
\* letter
TextPool == UNION { [ 1..n -> { "a", " ", "!", "é" } ] : n \in 0..MaxText }

\* a missing, a blank and a plain attribute
FewTexts == { << >>, << " " >>, << "b" >> }

DescHrefPool ==
    { << >>,
      << "#" >>,
      << "x" >>,
      << "m", "a", "i", "l", "t", "o", ":", "m" >>,
      << "h", "t", "t", "p", "s", ":", "/", "/", "a", ".", "b", "/" >>,
      << "h", "t", "t", "p", "s", ":", "/", "/", "a", ".", "b", "/", "x", "-", "y" >>,
      << "h", "t", "t", "p", "s", ":", "/", "/", "a", ".", "b", "/", "-" >> }

\* observations in which one text source ranges over TextPool
RawLinkPool ==
    [ anchorText : TextPool, ariaLabel : FewTexts, title : FewTexts,
      imageAlt : FewTexts, href : DescHrefPool ]
    \cup [ anchorText : FewTexts, ariaLabel : TextPool, title : FewTexts,
           imageAlt : FewTexts, href : DescHrefPool ]
    \cup [ anchorText : FewTexts, ariaLabel : FewTexts, title : TextPool,
           imageAlt : FewTexts, href : DescHrefPool ]
    \cup [ anchorText : FewTexts, ariaLabel : FewTexts, title : FewTexts,
           imageAlt : TextPool, href : DescHrefPool ]

InitDescribe ==
    /\ ServicesIdle
    /\ HandlerIdle
    /\ args \in [ method : { "generate" }, rawLink : RawLinkPool ]
    /\ returned = None

\* descriptionGenerator.generate(rawLink)
Generate ==
    /\ args # None
    /\ args.method = "generate"
    /\ returned = None
    /\ returned' = [ value |-> generate(args.rawLink) ]
    /\ UNCHANGED << args, batchVars, calls, loaderVars, retryVars, handlerVars >>

NextDescribe == Generate

SpecDescribe == InitDescribe /\ [][NextDescribe]_vars

(***************************************************************************)
(* LinkParser.normalizeUrl called on its own                               *)
(***************************************************************************)
MaxSegments == 3

RECURSIVE JoinSegments(_)
JoinSegments(segs) ==
    IF Len(segs) = 1 THEN Head(segs)
    ELSE Head(segs) \o << "/" >> \o JoinSegments(Tail(segs))

\* relative paths of up to MaxSegments segments ".", ".." or "y", bare, with leading
\* whitespace, with a trailing slash and with a query
RelativePaths ==
    { prefix \o JoinSegments(segs) \o suffix :
        segs \in UNION { [ 1..n -> { << "." >>, << ".." >>, << "y" >> } ] :
                           n \in 1..MaxSegments },
        prefix \in { << >>, << " " >> },
        suffix \in { << >>, << "/" >>, << "?", "q" >> } }

\* references of the other kinds normalizeUrl tells apart
OtherReferences ==
    { << >>, << " " >>, << "mailto:", "m" >>, << "//", "b.com", "/", "x" >>,
      << "https://", "b.com", "/", ".." >>, << "#", "s" >>, << "/", "x" >> }

\* base URLs: with an authority, without one, and strings new URL rejects
BasePool ==
    { << "https://", "a.com" >>, << "https://", "a.com", "/", "d", "/", "p" >>,
      << "https://", "a.com", "/", "d", "/" >>,
      << "file://", "", "/", "d", "/", "p" >>,
      << "mailto:", "m" >>, << "a.com" >>, << >> }

InitNormalize ==
    /\ ServicesIdle
    /\ HandlerIdle
    /\ args \in [ method : { "normalizeUrl" },
                  url : RelativePaths \cup OtherReferences,
                  baseUrl : BasePool ]
    /\ returned = None

\* linkParser.normalizeUrl(url, baseUrl); its catch returns the reference it
\* was given, so that the call always returns
NormalizeUrl ==
    /\ args # None
    /\ args.method = "normalizeUrl"
    /\ returned = None
    /\ returned' = [ value |-> normalizeUrl(args.url, args.baseUrl) ]
    /\ UNCHANGED << args, batchVars, calls, loaderVars, retryVars, handlerVars >>

NextNormalize == NormalizeUrl

SpecNormalize == InitNormalize /\ [][NextNormalize]_vars

(***************************************************************************)
(* MetadataCollector.collectMetadata called on its own                     *)
(***************************************************************************)
MaxObservations == 3

\* rel attributes: missing, nofollow in lower and in mixed case, nofollow
\* after another value, and a value that only begins with nofollow
RelPool ==
    { << >>,
      << "n", "o", "f", "o", "l", "l", "o", "w" >>,
      << "N", "o", "F", "o", "l", "l", "o", "w" >>,
      << "u", "g", "c", " ", "n", "o", "f", "o", "l", "l", "o", "w" >>,
      << "n", "o", "f", "o", "l", "l", "o", "w", "s" >> }

\* anchors inside <li> with every rel, anchors without a parent element
\* (parentTag "") with no rel and with nofollow
ObservationPool ==
    [ href : { << "https://", "a.com" >>, << "https://", "b.com" >> },
      rel : RelPool, parentTag : { "li" } ]
    \cup [ href : { << "https://", "a.com" >>, << "https://", "b.com" >> },
           rel : { << >>, Nofollow }, parentTag : { "" } ]

InitMetadata ==
    /\ ServicesIdle
    /\ HandlerIdle
    /\ args \in [ method : { "collectMetadata" },
                  rawLinks : UNION { [ 1..n -> ObservationPool ] :
                                       n \in 0..MaxObservations } ]
    /\ returned = None

\* metadataCollector.collectMetadata(rawLinks)
CollectMetadata ==
    /\ args # None
    /\ args.method = "collectMetadata"
    /\ returned = None
    /\ returned' = [ value |-> collectMetadata(args.rawLinks) ]
    /\ UNCHANGED << args, batchVars, calls, loaderVars, retryVars, handlerVars >>

NextMetadata == CollectMetadata

SpecMetadata == InitMetadata /\ [][NextMetadata]_vars

(***************************************************************************)
(* Fair specification: the event loop keeps running enabled code and every *)
(* awaited browser operation eventually settles.                           *)
(***************************************************************************)
SpecLive == Init /\ [][Next]_vars /\ WF_vars(Next)

(***************************************************************************)
(* Properties of processBatch                                              *)
(***************************************************************************)
\* extractions that have been started and whose task has not settled
InFlight == { i \in 1..Len(calls) : calls[i].pc # "done" }

ZeroStatistics ==
    [ totalLinks |-> 0, uniqueLinks |-> 0, internalLinks |-> 0,
      externalLinks |-> 0, protocolBreakdown |-> << >> ]

\* C1: when processBatch returns, results[i].sourceUrl is the i-th input URL
\* for every i (input order, not completion order).
C1_ResultsInInputOrder ==
    bpc = "returned" =>
        /\ Len(batchResult.results) = Len(urls)
        /\ \A i \in 1..Len(urls) : batchResult.results[i].sourceUrl = urls[i]

\* C2: the number of extractions started and not yet finished never exceeds
\* the concurrency cap.
C2_ConcurrencyCap ==
    bpc \in { "running", "waiting", "returned" } /\ concurrency >= 1
        => Cardinality(InFlight) <= concurrency

\* the cap binds: as many extractions in flight as allowed, more URLs queued
C2_Witness ==
    /\ bpc = "waiting"
    /\ Cardinality(InFlight) = concurrency
    /\ Len(queue) > 0
    /\ \E i \in InFlight : calls[i].pc = "goto"

\* the result a settled call must have contributed to the batch
Contribution(i) ==
    IF calls[i].thrown # None
    THEN [ sourceUrl |-> calls[i].url, links |-> << >>,
           statistics |-> ZeroStatistics, errors |-> << calls[i].thrown >> ]
    ELSE calls[i].result

\* C3: when an extraction throws, its task contributes a result with that
\* URL, exactly the thrown error, no links and zero statistics, and every
\* other URL of the batch is still started and contributes its own result.
C3_ThrowIsolated ==
    bpc = "returned" /\ (\E i \in 1..Len(calls) : calls[i].thrown # None) =>
        /\ batchError = None
        /\ Len(calls) = Len(urls)
        /\ \A j \in 1..Len(calls) : calls[j].url = urls[j] /\ calls[j].pc = "done"
        /\ Len(results) = Len(calls)
        /\ \E f \in [ 1..Len(calls) -> 1..Len(results) ] :
              /\ \A a, b \in 1..Len(calls) : f[a] = f[b] => a = b
              /\ \A j \in 1..Len(calls) : batchResult.results[f[j]] = Contribution(j)

\* a batch returned in which one extraction threw and a sibling succeeded
C3_Witness ==
    /\ bpc = "returned"
    /\ \E i, j \in 1..Len(calls) :
          /\ calls[i].thrown # None
          /\ calls[j].thrown = None
          /\ calls[j].result.errors = << >>
          /\ Len(calls[j].result.links) > 0

\* C4: a batch over a non-empty URL list returns once its extractions settle,
\* and at the return the queue and the in-flight set are empty and every
\* input URL has been started exactly once.
C4_Terminates ==
    /\ (bpc = "running" /\ concurrency >= 1) ~> (bpc = "returned")
    /\ [](bpc = "returned" =>
            /\ queue = << >>
            /\ inProgress = { }
            /\ InFlight = { }
            /\ Len(calls) = Len(urls)
            /\ \A i \in 1..Len(urls) : calls[i].url = urls[i])

\* a batch of the largest size has returned
C4_Witness ==
    /\ bpc = "returned"
    /\ Len(urls) = MaxUrls
    /\ Len(calls) = MaxUrls

\* C5: totalUrls is the number of input URLs; a result counts as successful
\* iff it has no error, failed otherwise; successful + failed = totalUrls =
\* number of results; totalLinks sums the links of the successful results.
C5_SummaryCounts ==
    bpc = "returned" =>
        LET rs == batchResult.results
            sm == batchResult.summary
            good == { i \in 1..Len(rs) : rs[i].errors = << >> }
        IN  /\ sm.totalUrls = Len(urls)
            /\ input.kind = "array" => sm.totalUrls = Len(input.value)
            /\ sm.successfulUrls = Cardinality(good)
            /\ sm.failedUrls = Len(rs) - Cardinality(good)
            /\ sm.successfulUrls + sm.failedUrls = sm.totalUrls
            /\ sm.totalUrls = Len(rs)
            /\ sm.totalLinks = SeqSum([ i \in 1..Len(rs) |->
                                  IF i \in good THEN Len(rs[i].links) ELSE 0 ])

\* a returned batch with a successful result without links, and a failed one
C5_Witness ==
    /\ bpc = "returned"
    /\ \E i, j \in 1..Len(results) :
          /\ results[i].errors = << >> /\ results[i].links = << >>
          /\ results[j].errors # << >>

\* C6: summary.errors holds exactly one (url, error) entry per error of each
\* failed result, paired with that result's sourceUrl, and nothing else; it
\* is non-empty iff failedUrls > 0.
C6_SummaryErrors ==
    bpc = "returned" =>
        LET rs == batchResult.results
            es == batchResult.summary.errors
            pairs == { << i, k >> \in (1..Len(rs)) \X (1..1) : k <= Len(rs[i].errors) }
            entry(p) == [ url |-> rs[p[1]].sourceUrl, error |-> rs[p[1]].errors[p[2]] ]
        IN  /\ \A i \in 1..Len(rs) : Len(rs[i].errors) <= 1
            /\ Len(es) = Cardinality(pairs)
            /\ \A x \in Range(es) \cup { entry(p) : p \in pairs } :
                  Cardinality({ n \in 1..Len(es) : es[n] = x })
                      = Cardinality({ p \in pairs : entry(p) = x })
            /\ (Len(es) > 0) <=> (batchResult.summary.failedUrls > 0)

\* a returned batch with two failed results
C6_Witness ==
    /\ bpc = "returned"
    /\ Len(batchResult.summary.errors) = 2
    /\ batchResult.summary.errors[1].url # batchResult.summary.errors[2].url

LineIsBlank(line) == \A k \in 1..Len(line) : line[k] \in Whitespace

LineBeginsWithHash(line) == line # << >> /\ line[1] = "#"

\* the input holds no usable URL
NoUsableUrl ==
    \/ input.kind = "array" /\ input.value = << >>
    \/ input.kind = "file"
         /\ \A n \in 1..Len(input.value) :
               LineIsBlank(input.value[n]) \/ LineBeginsWithHash(input.value[n])

\* C7: processBatch on an empty URL list, or on a file whose lines are all
\* blank or begin with '#', throws a ValidationError before any extraction is
\* started; no browser is launched, no page is created, no result is built.
C7_EmptyInputRejected ==
    NoUsableUrl /\ bpc # "start" =>
        /\ bpc = "thrown"
        /\ batchError.name = "ValidationError"
        /\ batchResult = None
        /\ calls = << >>
        /\ results = << >>
        /\ launched = { }
        /\ createdPages = { }

\* a two-line file made of a comment and a blank line has been rejected
C7_Witness ==
    /\ bpc = "thrown"
    /\ input.kind = "file"
    /\ \E n \in 1..Len(input.value) : LineBeginsWithHash(input.value[n])
    /\ \E n \in 1..Len(input.value) : LineIsBlank(input.value[n])

(***************************************************************************)
(* Properties of extract                                                   *)
(***************************************************************************)
\* extract has settled
Settled(i) == calls[i].pc \in { "returned", "threw", "done" }

C9_PagesClosedOnReturn ==
    \A i \in 1..Len(calls) : Settled(i) => i \notin openPages

(***************************************************************************)
(* Properties of extractWithRetry                                          *)
(***************************************************************************)
\* every load of the renderer so far has failed with a NetworkError
RendererAlwaysFails ==
    \A i \in 1..Len(calls) :
        /\ calls[i].thrown = None
        /\ Settled(i) => calls[i].err # None /\ calls[i].err.name = "NetworkError"

\* C10: against a renderer whose every load fails with a NetworkError,
\* extractWithRetry invokes extract maxRetries + 1 times and then throws a
\* NetworkError.
C10_RetriesThenThrows ==
    rpc \in { "returned", "thrown" } /\ RendererAlwaysFails =>
        /\ Len(calls) = maxRetries + 1
        /\ rpc = "thrown"
        /\ retryError.name = "NetworkError"

\* extractWithRetry has given up after maxRetries + 1 attempts that each
\* rejected with a NetworkError
RetriesExhausted ==
    /\ rpc = "thrown"
    /\ Len(calls) = maxRetries + 1
    /\ \A i \in 1..Len(calls) :
          calls[i].thrown # None /\ calls[i].thrown.name = "NetworkError"

\* C11: the NetworkError thrown after the retries are exhausted has retries
\* equal to maxRetries and wraps the failure of the last attempt.
C11_FinalErrorFields ==
    RetriesExhausted =>
        /\ retryError.name = "NetworkError"
        /\ retryError.retries = maxRetries
        /\ retryError.originalError = calls[Len(calls)].thrown

\* the attempts that rejected with a NetworkError
NetworkFailures ==
    { i \in 1..Len(calls) :
        calls[i].pc = "done" /\ calls[i].thrown # None
                             /\ calls[i].thrown.name = "NetworkError" }

\* C12: extract is invoked again, and a backoff is slept, only after an
\* attempt that rejected with a NetworkError; an attempt that ends in any
\* other error is the last one, and an attempt that returns a result is the
\* last one and its result is what extractWithRetry returns.
C12_RetryOnlyOnNetwork ==
    /\ \A i \in 1..(Len(calls) - 1) : i \in NetworkFailures
    /\ Len(sleeps) <= Cardinality(NetworkFailures)
    /\ Len(sleeps) >= Len(calls) - 1
    /\ \A i \in 1..Len(calls) :
          calls[i].pc = "done" /\ i \notin NetworkFailures =>
              /\ i = Len(calls)
              /\ Len(sleeps) = i - 1
              /\ rpc \in { "returned", "thrown" }
              /\ calls[i].thrown = None =>
                    rpc = "returned" /\ retryResult = calls[i].result
              /\ calls[i].thrown # None => rpc = "thrown"

\* after one retry the second attempt rejected with a timeout error and
\* extractWithRetry gave up without a second backoff, although a retry was left
C12_Witness ==
    /\ Len(calls) = 2
    /\ maxRetries >= 2
    /\ Len(sleeps) = 1
    /\ calls[2].pc = "done"
    /\ calls[2].thrown # None
    /\ calls[2].thrown.name = "TimeoutError"
    /\ rpc = "thrown"

(***************************************************************************)
(* Properties of PageLoader.load as seen through extract                   *)
(***************************************************************************)
\* response.status() of a goto outcome that is a denied response
StatusOf(outcome) == IF outcome = "401" THEN 401 ELSE 403

\* C13: a navigation answered with 401 or 403 is recorded in result.errors
\* as an AuthenticationError carrying that status, a navigation failure as a
\* NetworkError and a navigation timeout as a TimeoutError.
C13_LoadErrorClasses ==
    \A i \in 1..Len(calls) :
        Settled(i) /\ calls[i].outcome \notin { "none", "ok" } =>
            LET o == calls[i].outcome
                e == calls[i].result.errors
            IN  /\ Len(e) = 1
                /\ o \in { "401", "403" } =>
                      e[1] = AuthenticationError(calls[i].url, StatusOf(o))
                /\ o = "failed" => e[1].name = "NetworkError"
                /\ o = "timeout" => e[1].name = "TimeoutError"

(***************************************************************************)
(* Properties of the links extract returns                                 *)
(***************************************************************************)
\* the calls of extract that returned after their page was parsed
Parsed ==
    { i \in 1..Len(calls) :
        /\ Settled(i)
        /\ calls[i].result # None
        /\ calls[i].outcome = "ok"
        /\ calls[i].err = None }

\* the references of a call's observations after normalization, blank ones
\* left out, in document order
NormalizedHrefs(i) ==
    LET n == [ k \in 1..Len(calls[i].observed) |->
                 normalizeUrl(calls[i].observed[k].href, calls[i].url) ]
    IN  FilterSeq(n, { h \in Range(n) : Trim(h) # << >> })

RECURSIVE PickFrom(_, _, _)
\* the elements of s at the positions of K that are >= k, in order
PickFrom(s, K, k) ==
    IF k > Len(s) THEN << >>
    ELSE (IF k \in K THEN << s[k] >> ELSE << >>) \o PickFrom(s, K, k + 1)

\* the first occurrence of every element of s, in order
FirstOccurrences(s) ==
    PickFrom(s, { k \in 1..Len(s) : \A j \in 1..(k - 1) : s[j] # s[k] }, 1)

RECURSIVE IsSubsequence(_, _)
IsSubsequence(a, b) ==
    IF a = << >> THEN TRUE
    ELSE IF b = << >> THEN FALSE
    ELSE IF Head(a) = Head(b) THEN IsSubsequence(Tail(a), Tail(b))
    ELSE IsSubsequence(a, Tail(b))

\* the URLs of a result's links, in order
LinkUrls(i) ==
    [ k \in 1..Len(calls[i].result.links) |-> calls[i].result.links[k].url ]

\* C14: in every result of extract no two links have the same url, and the
\* links are in the order in which their URLs first occur among the page's
\* observations: all first occurrences without a filter, an order-preserving
\* subsequence of them with a filter.
C14_UniqueInFirstOccurrenceOrder ==
    \A i \in 1..Len(calls) :
        Settled(i) /\ calls[i].result # None =>
            /\ \A a, b \in 1..Len(LinkUrls(i)) :
                  a # b => LinkUrls(i)[a] # LinkUrls(i)[b]
            /\ i \in Parsed =>
                  /\ IsSubsequence(LinkUrls(i), FirstOccurrences(NormalizedHrefs(i)))
                  /\ options.filter = None =>
                        LinkUrls(i) = FirstOccurrences(NormalizedHrefs(i))
            /\ i \notin Parsed => LinkUrls(i) = << >>

\* a page whose first and third anchors have the same URL, written in two
\* ways, around a different one, was extracted without a filter
C14_Witness ==
    \E i \in Parsed :
        /\ options.filter = None
        /\ Len(calls[i].observed) = 3
        /\ calls[i].observed[1].href # calls[i].observed[3].href
        /\ Len(NormalizedHrefs(i)) = 3
        /\ NormalizedHrefs(i)[1] = NormalizedHrefs(i)[3]
        /\ NormalizedHrefs(i)[1] # NormalizedHrefs(i)[2]
        /\ Len(calls[i].result.links) = 2

\* the number of observations of a call whose normalized reference is h
OccurrencesOf(i, h) ==
    Cardinality({ n \in 1..Len(NormalizedHrefs(i)) : NormalizedHrefs(i)[n] = h })

\* C15: with includeMetadata, a URL that occurs k times among the normalized
\* non-blank references of the page has exactly one Link in the result (at
\* most one when a filter is applied), and that Link's metadata.occurrences
\* is k.
C15_OccurrencesCounted ==
    \A i \in Parsed :
        options.includeMetadata =>
            \A h \in Range(NormalizedHrefs(i)) :
                LET links == calls[i].result.links
                    hits == { a \in 1..Len(links) : links[a].url = h }
                IN  /\ Cardinality(hits) <= 1
                    /\ options.filter = None => Cardinality(hits) = 1
                    /\ \A a \in hits :
                          links[a].metadata.occurrences = OccurrencesOf(i, h)

\* a page with one URL written in two ways and another URL once was
\* extracted with metadata: one Link counts 2 occurrences, the other 1
C15_Witness ==
    \E i \in Parsed :
        /\ options.includeMetadata
        /\ options.filter = None
        /\ Len(calls[i].observed) = 3
        /\ Cardinality(Range(calls[i].observed)) = 3
        /\ Len(calls[i].result.links) = 2
        /\ \E a, b \in 1..2 :
              /\ calls[i].result.links[a].metadata.occurrences = 2
              /\ calls[i].result.links[b].metadata.occurrences = 1

(***************************************************************************)
(* Properties of the statistics extract returns                            *)
(***************************************************************************)
RECURSIVE SumOver(_, _)
\* the sum of f over the keys D
SumOver(f, D) ==
    IF D = { } THEN 0
    ELSE LET p == CHOOSE q \in D : TRUE
         IN  f[p] + SumOver(f, D \ { p })

\* the calls of extract that returned a result
Returned == { i \in 1..Len(calls) : Settled(i) /\ calls[i].result # None }

\* C16: in every result of extract, uniqueLinks is the number of links, the
\* protocolBreakdown values add up to uniqueLinks, and internalLinks +
\* externalLinks does not exceed uniqueLinks.
C16_StatisticsConsistent ==
    \A i \in Returned :
        LET r == calls[i].result
            st == r.statistics
        IN  /\ st.uniqueLinks = Len(r.links)
            /\ SumOver(st.protocolBreakdown, DOMAIN st.protocolBreakdown)
                  = st.uniqueLinks
            /\ st.internalLinks + st.externalLinks <= st.uniqueLinks

\* a filtered result with links of two protocols, one of them neither
\* internal nor external
C16_Witness ==
    \E i \in Parsed :
        LET st == calls[i].result.statistics
        IN  /\ options.filter # None
            /\ Cardinality(DOMAIN st.protocolBreakdown) = 2
            /\ st.internalLinks + st.externalLinks < st.uniqueLinks
            /\ Len(calls[i].result.links) < Len(FirstOccurrences(NormalizedHrefs(i)))

\* the links of a result that are flagged internal / external
InternalIn(r) == { k \in 1..Len(r.links) : r.links[k].isInternal }

ExternalIn(r) == { k \in 1..Len(r.links) : r.links[k].isExternal }

\* the links of a result that are internal or use http / https
DeterminateIn(r) ==
    { k \in 1..Len(r.links) :
        r.links[k].isInternal \/ r.links[k].protocol \in { "http", "https" } }

BuiltLinks == UNION { Range(calls[i].result.links) : i \in Returned }

\* C18: no Link is both internal and external, and a Link is external only
\* if its protocol is http or https and it is not internal.
C18_FlagsExclusive ==
    \A l \in BuiltLinks :
        /\ ~ (l.isInternal /\ l.isExternal)
        /\ l.isExternal =>
              /\ l.protocol \in { "http", "https" }
              /\ Head(l.url) \in { "http://", "https://" }
              /\ ~ l.isInternal

\* one result holds an external https link and a mailto link that is not
\* external
C18_Witness ==
    \E i \in Parsed :
        \E a, b \in 1..Len(calls[i].result.links) :
            LET la == calls[i].result.links[a]
                lb == calls[i].result.links[b]
            IN  /\ la.isExternal /\ la.protocol = "https"
                /\ lb.protocol = "mailto" /\ ~ lb.isExternal /\ ~ lb.isInternal

\* the protocols classifyProtocol buckets as http or special
RecognizedProtocols ==
    { "http", "https", "mailto", "tel", "javascript", "data", "ftp", "ftps" }

\* C19: a Link whose protocol is not a recognized one is neither internal
\* nor external, even when its host equals the page's host.
C19_UnrecognizedIsNeither ==
    \A l \in BuiltLinks :
        l.protocol \notin RecognizedProtocols => ~ l.isInternal /\ ~ l.isExternal

(***************************************************************************)
(* Properties of LinkFilter.filter                                         *)
(***************************************************************************)
\* link l meets every criterion that criteria supplies
Satisfies(l, criteria) ==
    /\ criteria.internalOnly => l.isInternal
    /\ criteria.externalOnly => l.isExternal
    /\ criteria.domains # << >> =>
          UrlParses(l.url) /\ HostMatches(Hostname(l.url), criteria.domains)
    /\ criteria.excludeDomains # << >> =>
          ~ (UrlParses(l.url)
               /\ HostMatches(Hostname(l.url), criteria.excludeDomains))
    /\ criteria.urlPattern # "" => matchesPattern(l.url, criteria.urlPattern)
    /\ criteria.protocols # << >> =>
          \E n \in 1..Len(criteria.protocols) :
              NormalizeProtocol(criteria.protocols[n]) = l.protocol

\* no field is supplied with different values by both criteria
Compatible(c1, c2) ==
    /\ c1.domains = << >> \/ c2.domains = << >> \/ c1.domains = c2.domains
    /\ c1.excludeDomains = << >> \/ c2.excludeDomains = << >>
          \/ c1.excludeDomains = c2.excludeDomains
    /\ c1.urlPattern = "" \/ c2.urlPattern = "" \/ c1.urlPattern = c2.urlPattern
    /\ c1.protocols = << >> \/ c2.protocols = << >> \/ c1.protocols = c2.protocols

\* the criteria object with the fields of both
Merge(c1, c2) ==
    [ internalOnly |-> c1.internalOnly \/ c2.internalOnly,
      externalOnly |-> c1.externalOnly \/ c2.externalOnly,
      domains |-> IF c1.domains # << >> THEN c1.domains ELSE c2.domains,
      excludeDomains |-> IF c1.excludeDomains # << >> THEN c1.excludeDomains
                         ELSE c2.excludeDomains,
      urlPattern |-> IF c1.urlPattern # "" THEN c1.urlPattern ELSE c2.urlPattern,
      protocols |-> IF c1.protocols # << >> THEN c1.protocols ELSE c2.protocols ]

\* the deduplicated links of a parsed call, before any filter
Unfiltered(i) ==
    ExtractLinks(calls[i].observed, calls[i].url, [ options EXCEPT !.filter = None ])

\* C20 (checked at the return of extract, whose links are filter's output):
\* filter returns exactly the links that satisfy every supplied
\* criterion, in their input order; filtering by c1 and then by c2 gives the
\* same as c2 and then c1 and the same as filtering once by both, and
\* filtering twice by the same criteria the same as once.
C20_FilterIsConjunction ==
    \A i \in Parsed :
        calls[i].pc = "returned" /\ options.filter # None =>
            LET c1 == options.filter
                all == Unfiltered(i)
                got == calls[i].result.links
            IN  /\ got = FilterSeq(all, { l \in Range(all) : Satisfies(l, c1) })
                /\ IsSubsequence(got, all)
                /\ filter(got, c1) = got
                /\ \A c2 \in FilterPool :
                      /\ filter(got, c2) = filter(filter(all, c2), c1)
                      /\ Compatible(c1, c2) =>
                            filter(got, c2) = filter(all, Merge(c1, c2))
                            /\ filter(all, Merge(c2, c1)) = filter(all, Merge(c1, c2))

\* internalOnly with a URL pattern was applied to a page with two internal
\* links, one of them matching the pattern, and an external link: exactly
\* the matching internal link is returned
C20_Witness ==
    \E i \in Parsed :
        /\ options.filter = [ NoCriteria EXCEPT !.internalOnly = TRUE,
                                                !.urlPattern = "x" ]
        /\ Len(Unfiltered(i)) = 3
        /\ Cardinality({ k \in 1..3 : Unfiltered(i)[k].isInternal }) = 2
        /\ Cardinality({ k \in 1..3 : matchesPattern(Unfiltered(i)[k].url, "x") }) = 1
        /\ Len(calls[i].result.links) = 1

(***************************************************************************)
(* Properties of the ErrorHandler's redirect chains                        *)
(***************************************************************************)
\* the recorded hops are those of one navigation: each hop starts where the
\* previous one ended, and no URL is visited twice
OneNavigation ==
    /\ \A k \in 1..(Len(hops) - 1) : hops[k].to = hops[k + 1].from
    /\ \A j, k \in 1..Len(hops) : j # k => hops[j].from # hops[k].from
    /\ \A k \in 1..Len(hops) : hops[Len(hops)].to # hops[k].from

\* C21: after trackRedirect has recorded A -> B and then B -> C of one
\* navigation, the chain stored under the original URL A holds both hops in
\* order, its totalRedirects is 2 and its finalUrl is C
C21_ChainKeyedByOriginalUrl ==
    (Len(hops) = 2 /\ OneNavigation)
        => /\ hops[1].from \in DOMAIN redirectChains
           /\ redirectChains[hops[1].from].redirects = hops
           /\ redirectChains[hops[1].from].totalRedirects = 2
           /\ redirectChains[hops[1].from].finalUrl = hops[2].to

ChainsWellFormed ==
    \A key \in DOMAIN redirectChains :
        LET chain == redirectChains[key]
        IN  /\ chain.totalRedirects = Len(chain.redirects)
            /\ Len(chain.redirects) >= 1
            /\ chain.finalUrl = chain.redirects[Len(chain.redirects)].to
            /\ chain.originalUrl = key

\* C28: after any sequence of trackRedirect and clearRedirectChains calls
\* every stored chain has totalRedirects equal to the number of its hops,
\* which is at least 1, finalUrl equal to the `to` of its last hop and
\* originalUrl equal to its key; clearRedirectChains leaves no chain stored
\* and leaves the log as it was
C28_ChainsWellFormed ==
    /\ []ChainsWellFormed
    /\ [][lastOp' = "clearRedirectChains"
            => redirectChains' = << >> /\ logs' = logs]_vars

\* three redirects were tracked and logged, the chains were cleared after the
\* first, and the two tracked since extend one chain
C28_Witness ==
    /\ Len(logs) = 3
    /\ \A k \in 1..3 : logs[k].message = "Redirect"
    /\ Len(hops) = 2
    /\ \E key \in DOMAIN redirectChains : redirectChains[key].redirects = hops

(***************************************************************************)
(* Properties of DescriptionGenerator                                      *)
(***************************************************************************)
Generated == args # None /\ args.method = "generate" /\ returned # None

\* C22: for every observation with a non-blank reference generate returns a
\* non-empty description, whatever its anchor text, aria-label, title and
\* image alt contain
C22_DescriptionNonEmpty ==
    (Generated /\ ~ IsBlank(args.rawLink.href)) => returned.value # << >>

\* the four text sources in priority order
Sources(rawLink) ==
    << rawLink.anchorText, rawLink.ariaLabel, rawLink.title, rawLink.imageAlt >>

NonBlankSources(rawLink) ==
    { k \in 1..4 : ~ IsBlank(Sources(rawLink)[k]) }

Normalized == args # None /\ args.method = "normalizeUrl" /\ returned # None

\* a reference that normalizeUrl resolves against the directory of the base
IsRelativePath(url) ==
    /\ Trim(url) # << >>
    /\ Head(Trim(url)) \notin { "mailto:", "tel:", "javascript:", "data:", "//",
                                "http://", "https://", "#", "/" }

\* the path of a URL string: what lies between its host, if it has one, and
\* its query or fragment
PathOf(u) ==
    IF u # << >> /\ Head(u) \in AuthoritySchemes
    THEN UpTo(SubSeq(u, 3, Len(u)), { "?", "#" })
    ELSE IF Len(u) >= 2 /\ Head(u) \in OpaqueSchemes /\ u[2] = "//"
         THEN LET rest == SubSeq(u, 3, Len(u))
                  host == UpTo(rest, { "/", "?", "#" })
              IN  UpTo(SubSeq(rest, Len(host) + 1, Len(rest)), { "?", "#" })
         ELSE UpTo(u, { "?", "#" })

HasDotSegment(u) ==
    \E seg \in Range(SplitPath(PathOf(u), << >>)) : seg \in { << "." >>, << ".." >> }

C25_BackoffDelays ==
    /\ Len(sleeps) <= maxRetries
    /\ Len(sleeps) >= 1 => sleeps[1] = 2 * 1000
    /\ \A n \in 2..Len(sleeps) : sleeps[n] = 2 * sleeps[n - 1]
    /\ \A n, m \in 1..Len(sleeps) : n < m => sleeps[n] < sleeps[m]
    /\ rpc = "thrown" => Len(sleeps) = Len(calls) - 1
    /\ rpc = "sleeping" => Len(sleeps) = Len(calls)

\* two retries were made after delays of 2 s and 4 s, the third attempt
\* failed as well and extractWithRetry threw without sleeping again
C25_Witness ==
    /\ maxRetries = 2
    /\ rpc = "thrown"
    /\ Len(calls) = 3
    /\ sleeps = << 2000, 4000 >>

(***************************************************************************)
(* Admission order of processBatch                                         *)
(***************************************************************************)
\* C26: URLs are admitted in input order (the k-th extraction started is
\* that of the k-th URL, and the queue holds the URLs not yet started, so no
\* URL is started twice), and an extraction is started only while fewer
\* than `concurrency` are in flight
C26_FifoAdmission ==
    /\ [](\A k \in 1..Len(calls) : calls[k].url = urls[k])
    /\ [](bpc \in { "running", "waiting", "returned" }
            => queue = SubSeq(urls, Len(calls) + 1, Len(urls)))
    /\ [][Len(calls') # Len(calls)
            => /\ Len(calls') = Len(calls) + 1
               /\ Cardinality(InFlight) < concurrency]_vars

\* two different URLs in flight together, started in input order
C26_Witness ==
    /\ Len(calls) = 2
    /\ Cardinality(InFlight) = 2
    /\ urls[1] # urls[2]
    /\ calls[1].url = urls[1]
    /\ calls[2].url = urls[2]
    /\ calls[2].pc = "launch"

(***************************************************************************)
(* Properties of MetadataCollector.collectMetadata                         *)
(***************************************************************************)
Collected == args # None /\ args.method = "collectMetadata" /\ returned # None

\* rel holds the token nofollow, in any case, delimited by whitespace or by
\* the ends of the attribute
HasNofollowToken(rel) ==
    \E i \in 1..Len(rel) :
        /\ i + 7 <= Len(rel)
        /\ [ k \in 1..8 |-> toLowerCase(rel[i + k - 1]) ] = Nofollow
        /\ i = 1 \/ rel[i - 1] \in JsSpace
        /\ i + 7 = Len(rel) \/ rel[i + 8] \in JsSpace

\* the observations of url among rawLinks, by index
ObservationsOf(rawLinks, url) ==
    { k \in 1..Len(rawLinks) : rawLinks[k].href = url }

\* C27: the entry of a URL has hasNoFollow, parentContext and position (the
\* zero-based index among all observations) of the first observation of
\* that URL and occurrences equal to the number of its observations; each
\* later observation of a URL changes the map only by adding 1 to the
\* occurrences of that URL
C27_FirstObservationWins ==
    Collected =>
        LET rawLinks == args.rawLinks
            metadataMap == returned.value
        IN  /\ DOMAIN metadataMap = { rawLinks[k].href : k \in 1..Len(rawLinks) }
            /\ \A url \in DOMAIN metadataMap :
                  LET seen == ObservationsOf(rawLinks, url)
                      first == CHOOSE k \in seen : \A j \in seen : k <= j
                  IN  /\ metadataMap[url].position = first - 1
                      /\ metadataMap[url].hasNoFollow
                            = HasNofollowToken(rawLinks[first].rel)
                      /\ metadataMap[url].parentContext
                            = IF rawLinks[first].parentTag = "" THEN "unknown"
                              ELSE rawLinks[first].parentTag
                      /\ metadataMap[url].occurrences = Cardinality(seen)
            /\ \A n \in 1..Len(rawLinks) :
                  LET before == collectMetadata(SubSeq(rawLinks, 1, n - 1))
                      after == collectMetadata(SubSeq(rawLinks, 1, n))
                      url == rawLinks[n].href
                  IN  url \in DOMAIN before
                        => after = [ before EXCEPT ![url].occurrences = @ + 1 ]

\* a URL seen first without nofollow inside <li>, then with nofollow and no
\* parent, after an observation of another URL
C27_Witness ==
    /\ Collected
    /\ Len(args.rawLinks) = 3
    /\ args.rawLinks[1].href # args.rawLinks[2].href
    /\ args.rawLinks[3].href = args.rawLinks[2].href
    /\ ~ HasNofollowToken(args.rawLinks[2].rel)
    /\ HasNofollowToken(args.rawLinks[3].rel)
    /\ args.rawLinks[2].parentTag = "li"
    /\ args.rawLinks[3].parentTag = ""
    /\ returned.value[args.rawLinks[2].href]
         = [ occurrences |-> 2, hasNoFollow |-> FALSE, parentContext |-> "li",
             position |-> 1 ]

(***************************************************************************)
(* Browser sessions of one PageLoader                                      *)
(***************************************************************************)
\* C29: whatever the interleaving of the loads of a batch, at most one
\* browser is ever launched, every load creates its context in that browser,
\* and after close() no browser and no context of the loader is open
C29_SingleSharedSession ==
    /\ Cardinality(launched) <= 1
    /\ \A i, j \in 1..Len(calls) :
          (calls[i].session # 0 /\ calls[j].session # 0)
              => calls[i].session = calls[j].session
    /\ bpc = "closed" => openBrowsers = { } /\ openContexts = { }

(***************************************************************************)
(* The concurrency option of processBatch                                  *)
(***************************************************************************)
\* C30: whatever the concurrency option, a running batch is never left with
\* URLs queued, nothing in flight and nothing admissible; a missing or zero
\* option runs with the default cap, and the cap in use is always > 0
C30_CapIsUsable ==
    bpc \in { "running", "waiting", "spinning" } =>
        /\ ~ (Len(queue) > 0 /\ InFlight = { }
                /\ ~ (Cardinality(InFlight) < concurrency))
        /\ options.concurrency = 0 => concurrency = DefaultConcurrency
        /\ concurrency > 0

====
